---- MODULE Spec2Model ----
(***************************************************************************)
(* A model of the pC emulator engine (src/src/emulator.py, PicoEmulator):  *)
(* the single-pass assembler parse(), the operand resolution helpers, the  *)
(* fetch-decode-execute step() and the input injection provide_input().    *)
(*                                                                         *)
(* Source text, instruction text, operands, output lines and error texts   *)
(* are strings, processed character by character as the Python code does.  *)
(* The 64K memory list is kept sparsely: `memory` maps exactly the cells   *)
(* holding a non-zero value, every other cell of 0..MemSize-1 reads 0.     *)
(***************************************************************************)
EXTENDS Integers, Sequences, FiniteSets, TLC

\* len(self.memory): [0] * 65536
MemSize == 65536

\* self.sp after reset()
InitSP == 65500

\* Input values offered to provide_input range over -MaxInput..MaxInput.
MaxInput == 3

(***************************************************************************)
(* Python built-ins used by the engine, on strings.                        *)
(***************************************************************************)

\* Characters str.strip() and str.split() treat as whitespace.
Whitespace == {" ", "\t", "\r", "\n", "\f"}

CharAt(s, i) == SubSeq(s, i, i)

MinOf(S) == CHOOSE i \in S : \A j \in S : i <= j

RECURSIVE lstrip(_)
lstrip(s) ==
    IF s # "" /\ Head(s) \in Whitespace THEN lstrip(Tail(s)) ELSE s

RECURSIVE rstrip(_)
rstrip(s) ==
    IF s # "" /\ CharAt(s, Len(s)) \in Whitespace
    THEN rstrip(SubSeq(s, 1, Len(s) - 1))
    ELSE s

\* str.strip()
strip(s) == rstrip(lstrip(s))

\* 1-based position of the first occurrence of character c in s, 0 if none.
find(s, c) ==
    LET at == {i \in 1..Len(s) : CharAt(s, i) = c}
    IN  IF at = {} THEN 0 ELSE MinOf(at)

\* `c in s` for a one-character c.
contains(s, c) == find(s, c) # 0

\* str.split(c): the pieces of s between the occurrences of c.
RECURSIVE split(_, _)
split(s, c) ==
    LET i == find(s, c)
    IN  IF i = 0 THEN <<s>>
        ELSE <<SubSeq(s, 1, i - 1)>> \o split(SubSeq(s, i + 1, Len(s)), c)

\* str.split(c, 1): split at the first occurrence of c only.
split_once(s, c) ==
    LET i == find(s, c)
    IN  IF i = 0 THEN <<s>>
        ELSE <<SubSeq(s, 1, i - 1), SubSeq(s, i + 1, Len(s))>>

\* Position of the first whitespace character of s, Len(s) + 1 if none.
first_space(s) ==
    LET at == {i \in 1..Len(s) : CharAt(s, i) \in Whitespace}
    IN  IF at = {} THEN Len(s) + 1 ELSE MinOf(at)

\* str.split(): the maximal runs of non-whitespace characters.
RECURSIVE split_ws(_)
split_ws(s) ==
    LET t == lstrip(s)
        e == first_space(t)
    IN  IF t = "" THEN <<>>
        ELSE <<SubSeq(t, 1, e - 1)>> \o split_ws(SubSeq(t, e, Len(t)))

\* The first word of the left-stripped t, then the rest (absent when empty).
first_and_rest(word, rest) == IF rest = "" THEN <<word>> ELSE <<word, rest>>

split_word(t, e) ==
    first_and_rest(SubSeq(t, 1, e - 1), lstrip(SubSeq(t, e, Len(t))))

split_stripped(t) == IF t = "" THEN <<>> ELSE split_word(t, first_space(t))

\* str.split(maxsplit=1): the first word, then the rest without its leading
\* whitespace (absent when nothing but whitespace follows the first word).
split_ws_once(s) == split_stripped(lstrip(s))

upper_char(c) ==
    CASE c = "a" -> "A" [] c = "b" -> "B" [] c = "c" -> "C" [] c = "d" -> "D"
      [] c = "e" -> "E" [] c = "f" -> "F" [] c = "g" -> "G" [] c = "h" -> "H"
      [] c = "i" -> "I" [] c = "j" -> "J" [] c = "k" -> "K" [] c = "l" -> "L"
      [] c = "m" -> "M" [] c = "n" -> "N" [] c = "o" -> "O" [] c = "p" -> "P"
      [] c = "q" -> "Q" [] c = "r" -> "R" [] c = "s" -> "S" [] c = "t" -> "T"
      [] c = "u" -> "U" [] c = "v" -> "V" [] c = "w" -> "W" [] c = "x" -> "X"
      [] c = "y" -> "Y" [] c = "z" -> "Z" [] OTHER -> c

\* str.upper()
RECURSIVE upper(_)
upper(s) == IF s = "" THEN "" ELSE upper_char(Head(s)) \o upper(Tail(s))

startswith(s, p) == Len(s) >= Len(p) /\ SubSeq(s, 1, Len(p)) = p

endswith(s, p) == Len(s) >= Len(p) /\ SubSeq(s, Len(s) - Len(p) + 1, Len(s)) = p

DigitChars == {"0", "1", "2", "3", "4", "5", "6", "7", "8", "9"}

digit_value(c) ==
    CASE c = "0" -> 0 [] c = "1" -> 1 [] c = "2" -> 2 [] c = "3" -> 3
      [] c = "4" -> 4 [] c = "5" -> 5 [] c = "6" -> 6 [] c = "7" -> 7
      [] c = "8" -> 8 [] c = "9" -> 9

\* str.isdigit(): non-empty and decimal digits only.
isdigit(s) == s # "" /\ \A i \in 1..Len(s) : CharAt(s, i) \in DigitChars

\* The number a string of decimal digits (and separating underscores) denotes.
RECURSIVE digits_value(_)
digits_value(s) ==
    IF s = "" THEN 0
    ELSE LET c == CharAt(s, Len(s))
             r == SubSeq(s, 1, Len(s) - 1)
         IN  IF c = "_" THEN digits_value(r)
             ELSE digits_value(r) * 10 + digit_value(c)

\* What an evaluation yields: a value, or the exception it raises.
Ok(v) == [exc |-> "", msg |-> "", val |-> v]

Raise(e, m) == [exc |-> e, msg |-> m, val |-> 0]

\* Exception propagation: the evaluation r, then F on its value unless r
\* raised.
Then(r, F(_)) == IF r.exc # "" THEN r ELSE F(r.val)

\* Whether int() accepts the text that follows the sign: decimal digits
\* that single underscores may separate.
int_wellformed(body) ==
    /\ body # ""
    /\ \A i \in 1..Len(body) : CharAt(body, i) \in DigitChars \cup {"_"}
    /\ Head(body) # "_"
    /\ CharAt(body, Len(body)) # "_"
    /\ \A i \in 1..(Len(body) - 1) :
          ~(CharAt(body, i) = "_" /\ CharAt(body, i + 1) = "_")

int_signed(negative, body) ==
    IF ~int_wellformed(body)
    THEN Raise("ValueError", "invalid literal for int() with base 10")
    ELSE IF negative THEN Ok(0 - digits_value(body))
    ELSE Ok(digits_value(body))

int_stripped(t) ==
    IF t # "" /\ Head(t) \in {"+", "-"}
    THEN int_signed(Head(t) = "-", Tail(t))
    ELSE int_signed(FALSE, t)

\* int(text): surrounding whitespace, an optional sign, digits; anything
\* else raises ValueError.
int(text) == int_stripped(strip(text))

\* str(n) of an integer.
str(n) == ToString(n)

\* " ".join(items)
RECURSIVE join(_)
join(items) ==
    IF items = <<>> THEN ""
    ELSE IF Len(items) = 1 THEN items[1]
    ELSE items[1] \o " " \o join(Tail(items))

\* a // b of Python integers, b # 0: the quotient rounded toward minus
\* infinity, computed on magnitudes.
\* Division rounding toward zero, as C's `/` does: the quotient a port of
\* `//` to a truncating language would compute.
truncdiv(a, b) ==
    LET abs(x) == IF x < 0 THEN 0 - x ELSE x
        q == abs(a) \div abs(b)
    IN  IF (a < 0) = (b < 0) THEN q ELSE 0 - q

floordiv(a, b) ==
    LET abs(x) == IF x < 0 THEN 0 - x ELSE x
        q == abs(a) \div abs(b)
        exact == q * abs(b) = abs(a)
    IN  IF (a < 0) = (b < 0) THEN q
        ELSE IF exact THEN 0 - q
        ELSE 0 - q - 1

(***************************************************************************)
(* Python containers: dicts as functions, the memory list sparsely.        *)
(***************************************************************************)

EmptyDict == [k \in {} |-> 0]

dict_set(d, k, v) == [x \in DOMAIN d \cup {k} |-> IF x = k THEN v ELSE d[x]]

\* Whether i is an index Python accepts for the memory list (negative
\* indices count from the end).
valid_index(i) == 0 - MemSize <= i /\ i < MemSize

\* The cell a valid index i names.
cell_of(i) == IF i < 0 THEN i + MemSize ELSE i

\* self.memory[i] for a valid index i.
mem_get(mem, i) == IF cell_of(i) \in DOMAIN mem THEN mem[cell_of(i)] ELSE 0

\* self.memory[i] = v for a valid index i.
mem_set(mem, i, v) ==
    LET c == cell_of(i)
    IN  IF v = 0 THEN [x \in DOMAIN mem \ {c} |-> mem[x]]
        ELSE [x \in DOMAIN mem \cup {c} |-> IF x = c THEN v ELSE mem[x]]

\* self.memory[i] as an evaluation: IndexError outside the list.
list_get(mem, i) ==
    IF valid_index(i) THEN Ok(mem_get(mem, i))
    ELSE Raise("IndexError", "list index out of range")


(***************************************************************************)
(* PicoEmulator.  A machine `self` is a record of the object's fields.     *)
(***************************************************************************)

\* PicoEmulator.reset(): the state of a freshly constructed machine.
reset ==
    [memory |-> EmptyDict,
     pc |-> 0,
     sp |-> InitSP,
     registers |-> EmptyDict,
     labels |-> EmptyDict,
     instructions |-> EmptyDict,
     is_running |-> FALSE,
     is_finished |-> FALSE,
     output_buffer |-> <<>>,
     last_error |-> "",
     input_needed |-> 0,
     input_dest_addr |-> 0,
     touched_memory |-> {}]

\* A reset() that lacks lines 24-25 and keeps the input handling state.
reset_keeping_input(self) ==
    [self EXCEPT
        !.memory = EmptyDict,
        !.pc = 0,
        !.sp = InitSP,
        !.registers = EmptyDict,
        !.labels = EmptyDict,
        !.instructions = EmptyDict,
        !.is_running = FALSE,
        !.is_finished = FALSE,
        !.output_buffer = <<>>,
        !.last_error = "",
        !.touched_memory = {}]

\* A reset() that lacks line 10 and keeps the contents of the memory.
reset_keeping_memory(self) ==
    [self EXCEPT
        !.pc = 0,
        !.sp = InitSP,
        !.registers = EmptyDict,
        !.labels = EmptyDict,
        !.instructions = EmptyDict,
        !.is_running = FALSE,
        !.is_finished = FALSE,
        !.output_buffer = <<>>,
        !.last_error = "",
        !.input_needed = 0,
        !.input_dest_addr = 0,
        !.touched_memory = {}]

\* PicoEmulator.reset() called on the object self: every attribute is
\* assigned anew.
reset_of(self) ==
    [self EXCEPT
        !.memory = EmptyDict,
        !.pc = 0,
        !.sp = InitSP,
        !.registers = EmptyDict,
        !.labels = EmptyDict,
        !.instructions = EmptyDict,
        !.is_running = FALSE,
        !.is_finished = FALSE,
        !.output_buffer = <<>>,
        !.last_error = "",
        !.input_needed = 0,
        !.input_dest_addr = 0,
        !.touched_memory = {}]

\* Whether addr indexes a memory cell: 0 <= addr < len(self.memory).
in_memory(addr) == 0 <= addr /\ addr < MemSize

\* An assignment line that takes up an instruction address.
define_symbol_at_address(st, name, val) ==
    IF val.exc # "" THEN st
    ELSE IF in_memory(val.val)
    THEN [st EXCEPT !.self.registers = dict_set(@, name, val.val),
                    !.self.memory = mem_set(@, val.val, 0),
                    !.self.touched_memory = @ \cup {val.val},
                    !.current_address = @ + 1]
    ELSE [st EXCEPT !.self.registers = dict_set(@, name, val.val),
                    !.current_address = @ + 1]

\* self.registers[name] = val, and the cell val zeroed and marked touched
\* when val is an address; a right side int() rejected drops the line.
define_symbol(st, name, val) ==
    IF val.exc # "" THEN st
    ELSE IF in_memory(val.val)
    THEN [st EXCEPT !.self.registers = dict_set(@, name, val.val),
                    !.self.memory = mem_set(@, val.val, 0),
                    !.self.touched_memory = @ \cup {val.val}]
    ELSE [st EXCEPT !.self.registers = dict_set(@, name, val.val)]

\* "1. Variable Definition": NAME = literal, cut at the '=' signs.
parse_assignment(st, parts) ==
    define_symbol(st, upper(strip(parts[1])), int(strip(parts[2])))

\* int(parts[1]) of an ORG line's words.
org_argument(parts) ==
    IF Len(parts) > 1 THEN int(parts[2])
    ELSE Raise("IndexError", "list index out of range")

\* An ORG that takes a missing or non-integer argument for 0.
set_origin_defaulting(st, address) ==
    IF address.exc # "" THEN [st EXCEPT !.current_address = 0, !.self.pc = 0]
    ELSE [st EXCEPT !.current_address = address.val, !.self.pc = address.val]

\* An ORG that sets the start pc only while it is still 0.
set_origin_once(st, address) ==
    IF address.exc # "" THEN st
    ELSE IF st.self.pc # 0 THEN [st EXCEPT !.current_address = address.val]
    ELSE [st EXCEPT !.current_address = address.val, !.self.pc = address.val]

\* current_address and self.pc set by ORG; a missing or non-integer
\* argument is ignored.
set_origin(st, address) ==
    IF address.exc # "" THEN st
    ELSE [st EXCEPT !.current_address = address.val, !.self.pc = address.val]

\* "2. ORG Directive"
parse_org(st, line) == set_origin(st, org_argument(split_ws(line)))

\* "4. Instruction Store"; idx is the 0-based index of the source line.
\* An instruction store that records enumerate's 0-based idx as line_no.
store_instruction_at_idx(st, text, idx) ==
    IF text # ""
    THEN [st EXCEPT
            !.self.instructions =
                dict_set(@, st.current_address, [text |-> text, line_no |-> idx]),
            !.current_address = @ + 1]
    ELSE st

store_instruction(st, text, idx) ==
    IF text # ""
    THEN [st EXCEPT
            !.self.instructions =
                dict_set(@, st.current_address, [text |-> text, line_no |-> idx + 1]),
            !.current_address = @ + 1]
    ELSE st

\* A label that maps to the address after the current one.
define_label_after(st, label_part) ==
    [st EXCEPT !.self.labels =
        dict_set(@, upper(strip(label_part)), st.current_address + 1)]

\* "3. Label Definition": the label maps to the current address.
define_label(st, label_part) ==
    [st EXCEPT !.self.labels =
        dict_set(@, upper(strip(label_part)), st.current_address)]

parse_labelled(st, halves, idx) ==
    store_instruction(define_label(st, halves[1]), strip(halves[2]), idx)

\* The body of parse()'s loop for a non-empty line without its comment.
parse_stripped(st, line, idx) ==
    IF line = "" THEN st
    ELSE IF contains(line, "=") THEN parse_assignment(st, split(line, "="))
    ELSE IF startswith(upper(line), "ORG") THEN parse_org(st, line)
    ELSE IF contains(line, ":") THEN parse_labelled(st, split_once(line, ":"), idx)
    ELSE store_instruction(st, line, idx)

\* The body of parse()'s loop for one source line.
parse_line(st, raw, idx) == parse_stripped(st, strip(split(raw, ";")[1]), idx)

RECURSIVE parse_lines(_, _, _)
parse_lines(st, lines, idx) ==
    IF idx >= Len(lines) THEN st
    ELSE parse_lines(parse_line(st, lines[idx + 1], idx), lines, idx + 1)

\* The pass of parse() over the lines, on the machine reset() left.
parse_from(cleared, source_code) ==
    parse_lines([self |-> cleared, current_address |-> 0],
                split(source_code, "\n"), 0).self

\* PicoEmulator.parse(source_code) on a machine just constructed: reset,
\* then one pass over the lines.
parse(source_code) == parse_from(reset, source_code)

\* A token resolve_symbol and resolve_value take for a number.
is_number(token) ==
    isdigit(token) \/ (startswith(token, "-") /\ isdigit(Tail(token)))

\* A resolve_symbol that looks into the label table first.
lookup_label_first(self, t) ==
    IF is_number(t) THEN int(t)
    ELSE IF t \in DOMAIN self.labels THEN Ok(self.labels[t])
    ELSE IF t \in DOMAIN self.registers THEN Ok(self.registers[t])
    ELSE Raise("ValueError", "Unknown symbol: " \o t)

\* resolve_symbol on the stripped, upper-cased token.
lookup_symbol(self, t) ==
    IF is_number(t) THEN int(t)
    ELSE IF t \in DOMAIN self.registers THEN Ok(self.registers[t])
    ELSE IF t \in DOMAIN self.labels THEN Ok(self.labels[t])
    ELSE Raise("ValueError", "Unknown symbol: " \o t)

\* PicoEmulator.resolve_symbol(token)
resolve_symbol(self, token) == lookup_symbol(self, upper(strip(token)))

\* Whether an upper-cased operand is written (...).
is_indirect(operand) == startswith(operand, "(") /\ endswith(operand, ")")

\* operand[1:-1]
inner_of(operand) == SubSeq(operand, 2, Len(operand) - 1)

\* self.memory[addr] under resolve_value's bounds check.
read_checked(self, addr, what) ==
    IF in_memory(addr) THEN Ok(mem_get(self.memory, addr))
    ELSE Raise("ValueError", what \o str(addr))

\* resolve_value on the stripped, upper-cased operand.
value_of(self, op) ==
    IF is_indirect(op)
    THEN Then(resolve_symbol(self, inner_of(op)), LAMBDA ptr_loc :
         Then(list_get(self.memory, ptr_loc), LAMBDA real_addr :
              read_checked(self, real_addr, "Indirect access out of bounds: ")))
    ELSE IF startswith(op, "#") THEN resolve_symbol(self, Tail(op))
    ELSE IF is_number(op) THEN int(op)
    ELSE Then(resolve_symbol(self, op), LAMBDA addr :
              read_checked(self, addr, "Memory access out of bounds: "))

\* PicoEmulator.resolve_value(operand)
resolve_value(self, operand) == value_of(self, upper(strip(operand)))

\* resolve_write_target on the stripped, upper-cased operand.
\* A write target that ignores the indirection of lines 145-149 and takes
\* the pointer's own location.
write_target_direct(self, op) ==
    resolve_symbol(self, IF is_indirect(op) THEN inner_of(op) ELSE op)

write_target_of(self, op) ==
    IF is_indirect(op)
    THEN Then(resolve_symbol(self, inner_of(op)), LAMBDA ptr_loc :
              list_get(self.memory, ptr_loc))
    ELSE resolve_symbol(self, op)

\* PicoEmulator.resolve_write_target(operand)
resolve_write_target(self, operand) == write_target_of(self, upper(strip(operand)))

\* What a state-changing call yields: the machine it leaves and the
\* exception it raises, if any.
Done(self) == [exc |-> "", msg |-> "", self |-> self]

Failed(self, e) == [exc |-> e.exc, msg |-> e.msg, self |-> self]

\* set_value once the destination is resolved.
write_checked(self, dest_addr, value) ==
    IF dest_addr.exc # "" THEN Failed(self, dest_addr)
    ELSE IF in_memory(dest_addr.val)
    THEN Done([self EXCEPT !.memory = mem_set(@, dest_addr.val, value),
                           !.touched_memory = @ \cup {dest_addr.val}])
    ELSE Failed(self, Raise("ValueError",
             "Memory write out of bounds: " \o str(dest_addr.val)))

\* PicoEmulator.set_value(operand, value)
set_value(self, operand, value) ==
    write_checked(self, resolve_write_target(self, operand), value)

\* What provide_input gives its caller: the machine it leaves, the value
\* it returns, the exception that escapes it.
Gave(self, ret, exc) == [self |-> self, ret |-> ret, exc |-> exc]

\* An end of provide_input that lacks the test of line 176 and advances the
\* pc with every value.
input_stored_eager(stored) == Gave([stored EXCEPT !.pc = @ + 1], "True", "")

\* The end of provide_input: the pc advances once no input is needed.
input_stored(stored) ==
    IF stored.input_needed = 0
    THEN Gave([stored EXCEPT !.pc = @ + 1], "True", "")
    ELSE Gave(stored, "True", "")

\* The try block of provide_input, val being int(value).
store_input(self, val) ==
    IF val.exc # "" THEN Gave(self, "False", "")
    ELSE IF ~valid_index(self.input_dest_addr) THEN Gave(self, "", "IndexError")
    ELSE input_stored([self EXCEPT
            !.memory = mem_set(@, self.input_dest_addr, val.val),
            !.touched_memory = @ \cup {self.input_dest_addr},
            !.input_dest_addr = @ + 1,
            !.input_needed = @ - 1])

\* A provide_input that lacks the test of line 166 and stores a value
\* whether or not one is awaited.
provide_input_unguarded(self, value) == store_input(self, int(value))

\* PicoEmulator.provide_input(value)
provide_input(self, value) ==
    IF self.input_needed > 0 THEN store_input(self, int(value))
    ELSE Gave(self, "False", "")

(***************************************************************************)
(* step(): one operator per opcode branch.  A branch yields the machine it *)
(* leaves, the next_pc it computed, whether it returned from step() early, *)
(* and the exception it raised (with the effects applied before it).       *)
(***************************************************************************)

Completed(self, next_pc) ==
    [exc |-> "", msg |-> "", self |-> self, next_pc |-> next_pc, returned |-> FALSE]

Returned(self) ==
    [exc |-> "", msg |-> "", self |-> self, next_pc |-> self.pc, returned |-> TRUE]

Raised(self, e) ==
    [exc |-> e.exc, msg |-> e.msg, self |-> self, next_pc |-> self.pc, returned |-> FALSE]

\* Exception propagation inside the try block: the evaluation r, then F on
\* its value; had r raised, the exception leaves the branch with the
\* machine as it is.
Try(r, self, F(_)) == IF r.exc # "" THEN Raised(self, r) ELSE F(r.val)

\* The end of a branch whose last statement is a set_value call.
Finish(written, next_pc) ==
    IF written.exc # "" THEN Raised(written.self, written)
    ELSE Completed(written.self, next_pc)

\* args[i] (0-based) of the argument list, as an evaluation.
arg(args, i) ==
    IF i < Len(args) THEN Ok(args[i + 1])
    ELSE Raise("IndexError", "list index out of range")

\* self.resolve_value(args[i])
resolve_value_arg(self, args, i) ==
    Then(arg(args, i), LAMBDA operand : resolve_value(self, operand))

\* self.set_value(args[i], value)
set_value_arg(self, args, i, value) ==
    IF i < Len(args) THEN set_value(self, args[i + 1], value)
    ELSE Failed(self, arg(args, i))

\* count = 1; if len(args) > 1: count = self.resolve_value(args[1])
count_arg(self, args) ==
    IF Len(args) > 1 THEN resolve_value(self, args[2]) ELSE Ok(1)

\* MOV Dest, Src
exec_mov(self, args, next_pc) ==
    Try(resolve_value_arg(self, args, 1), self, LAMBDA val :
        Finish(set_value_arg(self, args, 0, val), next_pc))

\* res of ADD, SUB, MUL, DIV for the resolved operands.
arith_result(opcode, val1, val2) ==
    IF opcode = "ADD" THEN Ok(val1 + val2)
    ELSE IF opcode = "SUB" THEN Ok(val1 - val2)
    ELSE IF opcode = "MUL" THEN Ok(val1 * val2)
    ELSE IF val2 = 0 THEN Raise("ValueError", "Division by zero")
    ELSE Ok(floordiv(val1, val2))

\* ADD/SUB/MUL/DIV Dest, Src1, Src2
exec_arith(self, opcode, args, next_pc) ==
    Try(resolve_value_arg(self, args, 1), self, LAMBDA val1 :
    Try(resolve_value_arg(self, args, 2), self, LAMBDA val2 :
    Try(arith_result(opcode, val1, val2), self, LAMBDA res :
        Finish(set_value_arg(self, args, 0, res), next_pc))))

\* The end of the IN branch: suspend for count > 0, else fall through.
\* An IN whose `return` of line 247 is outside the test of line 243: it
\* leaves the try block without reaching line 330 whatever the count.
await_input_returning(self, target_addr, count, next_pc) ==
    IF count > 0
    THEN Returned([self EXCEPT !.input_needed = count,
                               !.input_dest_addr = target_addr])
    ELSE Returned(self)

await_input(self, target_addr, count, next_pc) ==
    IF count > 0
    THEN Returned([self EXCEPT !.input_needed = count,
                               !.input_dest_addr = target_addr])
    ELSE Completed(self, next_pc)

\* IN Address, [Count]
exec_in(self, args, next_pc) ==
    Try(Then(arg(args, 0), LAMBDA operand : resolve_write_target(self, operand)),
        self, LAMBDA target_addr :
    Try(count_arg(self, args), self, LAMBDA count :
        await_input(self, target_addr, count, next_pc)))

\* The start address of OUT's stripped, upper-cased operand.
out_start_addr(self, raw_arg) ==
    IF is_indirect(raw_arg)
    THEN Then(resolve_symbol(self, inner_of(raw_arg)), LAMBDA ptr_loc :
              list_get(self.memory, ptr_loc))
    ELSE resolve_symbol(self, raw_arg)

\* An OUT loop that lacks the test of line 280 and reads every address.
RECURSIVE out_items_unchecked(_, _, _, _)
out_items_unchecked(mem, start_addr, i, count) ==
    IF i >= count THEN Ok(<<>>)
    ELSE Then(list_get(mem, start_addr + i), LAMBDA v :
         Then(out_items_unchecked(mem, start_addr, i + 1, count), LAMBDA rest :
              Ok(<<str(v)>> \o rest)))

\* OUT's loop from iteration i on: the texts appended to line_out, or the
\* IndexError of a read below the list.
RECURSIVE out_items(_, _, _, _)
out_items(mem, start_addr, i, count) ==
    IF i >= count THEN Ok(<<>>)
    ELSE IF start_addr + i < MemSize
    THEN Then(list_get(mem, start_addr + i), LAMBDA v :
         Then(out_items(mem, start_addr, i + 1, count), LAMBDA rest :
              Ok(<<str(v)>> \o rest)))
    ELSE out_items(mem, start_addr, i + 1, count)

\* OUT Address, [Count]
exec_out(self, args, next_pc) ==
    Try(Then(arg(args, 0), LAMBDA operand :
             out_start_addr(self, upper(strip(operand)))),
        self, LAMBDA start_addr :
    Try(count_arg(self, args), self, LAMBDA count :
    Try(out_items(self.memory, start_addr, 0, count), self, LAMBDA line_out :
        Completed([self EXCEPT !.output_buffer = Append(@, join(line_out))],
                  next_pc))))

\* A BGT that also branches on equal values.
branch_taken_on_equal(opcode, val1, val2) ==
    IF opcode = "BEQ" THEN val1 = val2 ELSE val1 >= val2

\* A BEQ that branches on unequal values.
branch_taken_unless_equal(opcode, val1, val2) ==
    IF opcode = "BEQ" THEN val1 # val2 ELSE val1 > val2

\* The condition of BEQ (val1 == val2) or BGT (val1 > val2).
branch_taken(opcode, val1, val2) ==
    IF opcode = "BEQ" THEN val1 = val2 ELSE val1 > val2

\* The end of a branch instruction: the label is looked up when taken.
\* A branch that looks its label up as resolve_symbol does, in the symbol
\* table when the label table lacks it.
branch_to_symbol(self, label, taken, next_pc) ==
    IF ~taken THEN Completed(self, next_pc)
    ELSE IF label \in DOMAIN self.labels THEN Completed(self, self.labels[label])
    ELSE IF label \in DOMAIN self.registers
    THEN Completed(self, self.registers[label])
    ELSE Raised(self, Raise("ValueError", "Unknown label: " \o label))

\* A branch that looks its label up whether or not it is taken.
branch_to_label_first(self, label, taken, next_pc) ==
    IF label \notin DOMAIN self.labels
    THEN Raised(self, Raise("ValueError", "Unknown label: " \o label))
    ELSE IF taken THEN Completed(self, self.labels[label])
    ELSE Completed(self, next_pc)

branch_to(self, label, taken, next_pc) ==
    IF ~taken THEN Completed(self, next_pc)
    ELSE IF label \in DOMAIN self.labels THEN Completed(self, self.labels[label])
    ELSE Raised(self, Raise("ValueError", "Unknown label: " \o label))

\* BEQ/BGT Val1, Val2, Label
exec_branch(self, opcode, args, next_pc) ==
    Try(resolve_value_arg(self, args, 0), self, LAMBDA val1 :
    Try(resolve_value_arg(self, args, 1), self, LAMBDA val2 :
    Try(arg(args, 2), self, LAMBDA operand :
        branch_to(self, upper(operand), branch_taken(opcode, val1, val2),
                  next_pc))))

\* A push of the address of the JSR itself in place of next_pc.
push_own_address(self, next_pc) ==
    [self EXCEPT !.memory = mem_set(@, self.sp, self.pc),
                 !.touched_memory = @ \cup {self.sp},
                 !.sp = @ - 1]

\* self.memory[self.sp] = next_pc; touched; self.sp -= 1
push(self, next_pc) ==
    [self EXCEPT !.memory = mem_set(@, self.sp, next_pc),
                 !.touched_memory = @ \cup {self.sp},
                 !.sp = @ - 1]

\* The end of JSR, after the push.
jump_to(pushed, label) ==
    IF label \in DOMAIN pushed.labels THEN Completed(pushed, pushed.labels[label])
    ELSE Raised(pushed, Raise("ValueError", "Unknown label: " \o label))

\* A JSR that looks its label up before it pushes the return address.
exec_jsr_label_first(self, args, next_pc) ==
    Try(arg(args, 0), self, LAMBDA operand :
        IF upper(operand) \notin DOMAIN self.labels
        THEN Raised(self, Raise("ValueError", "Unknown label: " \o upper(operand)))
        ELSE IF ~valid_index(self.sp)
        THEN Raised(self, Raise("IndexError", "list assignment index out of range"))
        ELSE jump_to(push(self, next_pc), upper(operand)))

\* JSR Label
exec_jsr(self, args, next_pc) ==
    Try(arg(args, 0), self, LAMBDA operand :
        IF ~valid_index(self.sp)
        THEN Raised(self, Raise("IndexError", "list assignment index out of range"))
        ELSE jump_to(push(self, next_pc), upper(operand)))

\* An end of RTS that lets the stack pointer reach len(self.memory).
return_from_past_end(popped) ==
    IF popped.sp > MemSize
    THEN Raised(popped, Raise("ValueError", "Stack underflow"))
    ELSE Try(list_get(popped.memory, popped.sp), popped, LAMBDA target :
             Completed(popped, target))

\* An end of RTS that takes the stack to be empty above its initial top.
return_from_above_initial(popped) ==
    IF popped.sp > InitSP
    THEN Raised(popped, Raise("ValueError", "Stack underflow"))
    ELSE Try(list_get(popped.memory, popped.sp), popped, LAMBDA target :
             Completed(popped, target))

\* The end of RTS, after self.sp += 1.
return_from(popped) ==
    IF popped.sp >= MemSize
    THEN Raised(popped, Raise("ValueError", "Stack underflow"))
    ELSE Try(list_get(popped.memory, popped.sp), popped, LAMBDA target :
             Completed(popped, target))

\* RTS
exec_rts(self, args, next_pc) == return_from([self EXCEPT !.sp = @ + 1])

\* A STOP that reports its operand as written, not the value it resolves to.
stop_result_as_written(stopped, args, next_pc) ==
    IF Len(args) = 0 THEN Completed(stopped, next_pc)
    ELSE Try(resolve_value(stopped, args[1]), stopped, LAMBDA val :
             Completed([stopped EXCEPT !.output_buffer =
                           Append(@, "STOP Result: " \o args[1])],
                       next_pc))

\* The end of STOP, after self.is_finished = True.
stop_result(stopped, args, next_pc) ==
    IF Len(args) = 0 THEN Completed(stopped, next_pc)
    ELSE Try(resolve_value(stopped, args[1]), stopped, LAMBDA val :
             Completed([stopped EXCEPT !.output_buffer =
                           Append(@, "STOP Result: " \o str(val))],
                       next_pc))

\* STOP [Val]
exec_stop(self, args, next_pc) ==
    stop_result([self EXCEPT !.is_finished = TRUE], args, next_pc)

\* [arg.strip() for arg in pieces]
strip_all(pieces) == [i \in 1..Len(pieces) |-> strip(pieces[i])]

\* The opcode and the arguments, from line.split(maxsplit=1).
tokens_of(parts) ==
    [opcode |-> upper(parts[1]),
     args |-> IF Len(parts) > 1 THEN strip_all(split(parts[2], ",")) ELSE <<>>]

\* The opcode and the argument list step() cuts an instruction text into.
tokenize(line) == tokens_of(split_ws_once(line))

\* An if/elif chain that ends in an else branch raising on an opcode it
\* does not know.
execute_known(self, opcode, args, next_pc) ==
    IF opcode = "MOV" THEN exec_mov(self, args, next_pc)
    ELSE IF opcode \in {"ADD", "SUB", "MUL", "DIV"}
    THEN exec_arith(self, opcode, args, next_pc)
    ELSE IF opcode = "IN" THEN exec_in(self, args, next_pc)
    ELSE IF opcode = "OUT" THEN exec_out(self, args, next_pc)
    ELSE IF opcode \in {"BEQ", "BGT"} THEN exec_branch(self, opcode, args, next_pc)
    ELSE IF opcode = "JSR" THEN exec_jsr(self, args, next_pc)
    ELSE IF opcode = "RTS" THEN exec_rts(self, args, next_pc)
    ELSE IF opcode = "STOP" THEN exec_stop(self, args, next_pc)
    ELSE Raised(self, Raise("ValueError", "Unknown opcode: " \o opcode))

\* The if/elif chain of step() on the opcode.
execute(self, opcode, args, next_pc) ==
    IF opcode = "MOV" THEN exec_mov(self, args, next_pc)
    ELSE IF opcode \in {"ADD", "SUB", "MUL", "DIV"}
    THEN exec_arith(self, opcode, args, next_pc)
    ELSE IF opcode = "IN" THEN exec_in(self, args, next_pc)
    ELSE IF opcode = "OUT" THEN exec_out(self, args, next_pc)
    ELSE IF opcode \in {"BEQ", "BGT"} THEN exec_branch(self, opcode, args, next_pc)
    ELSE IF opcode = "JSR" THEN exec_jsr(self, args, next_pc)
    ELSE IF opcode = "RTS" THEN exec_rts(self, args, next_pc)
    ELSE IF opcode = "STOP" THEN exec_stop(self, args, next_pc)
    ELSE Completed(self, next_pc)

\* An except clause that lacks line 334: the error is recorded and the
\* machine goes on.
conclude_recording(done, line_no) ==
    IF done.exc # ""
    THEN [done.self EXCEPT
            !.last_error = "Error line " \o str(line_no) \o ": " \o done.msg]
    ELSE IF done.returned THEN done.self
    ELSE [done.self EXCEPT !.pc = done.next_pc]

\* A try block that lacks line 330: no instruction moves the pc by falling
\* through.
conclude_in_place(done, line_no) ==
    IF done.exc # ""
    THEN [done.self EXCEPT
            !.last_error = "Error line " \o str(line_no) \o ": " \o done.msg,
            !.is_finished = TRUE]
    ELSE done.self

\* The end of step(): self.pc = next_pc, the early return of a suspending
\* IN, or the except clause.
conclude(done, line_no) ==
    IF done.exc # ""
    THEN [done.self EXCEPT
            !.last_error = "Error line " \o str(line_no) \o ": " \o done.msg,
            !.is_finished = TRUE]
    ELSE IF done.returned THEN done.self
    ELSE [done.self EXCEPT !.pc = done.next_pc]

\* The instruction tok executed inside step()'s try block.
run_tokens(self, tok, line_no) ==
    conclude(execute(self, tok.opcode, tok.args, self.pc + 1), line_no)

\* step() from the fetch of the instruction at self.pc on.
run_instruction(self, instr_data) ==
    run_tokens(self, tokenize(instr_data.text), instr_data.line_no)

\* A step() that ends silently at an address without instruction: line
\* 190 is missing.
step_ending_silently(self) ==
    IF self.is_finished \/ self.input_needed > 0 THEN self
    ELSE IF self.pc \notin DOMAIN self.instructions
    THEN [self EXCEPT !.is_finished = TRUE]
    ELSE run_instruction(self, self.instructions[self.pc])

\* A step() whose guard of line 186 lacks the is_finished test.
step_when_finished(self) ==
    IF self.input_needed > 0 THEN self
    ELSE IF self.pc \notin DOMAIN self.instructions
    THEN [self EXCEPT
            !.last_error = "End of program or invalid PC: " \o str(self.pc),
            !.is_finished = TRUE]
    ELSE run_instruction(self, self.instructions[self.pc])

\* A step() whose guard of line 186 lacks the input_needed test.
step_when_waiting(self) ==
    IF self.is_finished THEN self
    ELSE IF self.pc \notin DOMAIN self.instructions
    THEN [self EXCEPT
            !.last_error = "End of program or invalid PC: " \o str(self.pc),
            !.is_finished = TRUE]
    ELSE run_instruction(self, self.instructions[self.pc])

\* PicoEmulator.step(): the machine it leaves.
step(self) ==
    IF self.is_finished \/ self.input_needed > 0 THEN self
    ELSE IF self.pc \notin DOMAIN self.instructions
    THEN [self EXCEPT
            !.last_error = "End of program or invalid PC: " \o str(self.pc),
            !.is_finished = TRUE]
    ELSE run_instruction(self, self.instructions[self.pc])

(***************************************************************************)
(* The programs loaded and the input texts supplied.                       *)
(***************************************************************************)

\* MainWindow.load_default_code: the editor's default program (Euclid's GCD).
DefaultCode ==
    "; PicoComputer Example\n"
    \o "M = 1\n"
    \o "N = 2\n"
    \o "R = 3\n"
    \o "ORG 10\n"
    \o "\n"
    \o "IN M, 2      ; Input M & N\n"
    \o "LOOP: \n"
    \o "DIV R, M, N  ; R = M / N\n"
    \o "MUL R, R, N  ; R = int(M/N) * N\n"
    \o "SUB R, M, R  ; R = M - R\n"
    \o "MOV M, N     ; M = N\n"
    \o "MOV N, R     ; N = R\n"
    \o "BGT R, 0, LOOP\n"
    \o "OUT M, 1     ; Output GCD\n"
    \o "STOP\n"

\* IN with each destination mode and count, then output of the cells read.
InSources ==
    {"X = 100\nP = 7\nMOV P, #X\nIN " \o d \o c \o "\nOUT X, 3\nSTOP X"
        : d \in {"X", "(P)"}, c \in {"", ", 1", ", 3", ", 0", ", -1", ", N"}}

\* IN whose destination reaches an end of the memory list.
InEdgeSources ==
    {"X = " \o a \o "\nIN X, 2\nOUT 65535, 2\nSTOP"
        : a \in {"65535", "65536", "-1", "-65537"}}

\* MOV with each pair of addressing modes, on two cells read from input.
MovSources ==
    {"A = 1\nB = 2\nIN A, 2\nMOV " \o d \o ", " \o b \o "\nOUT A, 3\nSTOP"
        : d \in {"A", "(A)"}, b \in {"#B", "-7", "B", "(B)", "(A)", "A"}}

\* Arithmetic on two cells read from input.
ArithSources ==
    {"A = 1\nB = 2\nR = 3\nIN A, 2\n" \o o \o " R, A, B\nOUT R\nSTOP R"
        : o \in {"ADD", "SUB", "MUL", "DIV", "div"}}

\* Operands in lower case and with inner blanks, a numeric destination,
\* and the quotients of 7 and -7 by 2.
OperandSources ==
    {"a = 1\nb = 2\nin a, 2\nmov ( a ) , ( B )\nout a, 3\nstop",
     "MOV 3, #7\nOUT 3\nSTOP 3",
     "R = 3\nDIV R, 7, 2\nOUT R\nDIV R, -7, 2\nOUT R\nDIV R, 7, -2\nSTOP R"}

\* Branches, a subroutine call and its return.
ControlSource ==
    "A = 1\nB = 2\n"
    \o "IN A, 2\n"
    \o "BEQ A, B, EQ\n"
    \o "BGT A, B, GT\n"
    \o "JSR SUB1\n"
    \o "STOP #0\n"
    \o "EQ: STOP 1\n"
    \o "GT:\n"
    \o "OUT A\n"
    \o "STOP\n"
    \o "SUB1: OUT B\n"
    \o "RTS"

\* Programs that end in a fatal error, use no known opcode, or run off
\* their end.
ErrorSources ==
    {"MOV A, 1",
     "A = 5\nMOV A",
     "NOP\nFOO 1, 2\nA = 5\nMOV A, 1",
     "JSR NOWHERE",
     "RTS",
     "BEQ 1, 1, NOPE",
     "X = 1\nBGT 2, 1, X\nSTOP",
     "L = 0\nJSR L\nSTOP",
     "BGT 1, 2, NOPE\nSTOP 7",
     "R = 3\nMOV R, 5\n\nDIV R, R, 0 ; by zero",
     "ORG 5\nIN 9, 0\nSTOP X",
     "P = 4\nMOV P, -1\nMOV (P), 1",
     "OUT Q\nSTOP"}

\* Operands whose address, pointer cell or pointer target lies outside the
\* memory.
RangeSources ==
    {"P = -1\nMOV (P), 5\nOUT 0\nSTOP",
     "P = -2\nQ = 65534\nMOV Q, 7\nBEQ (P), 0, Z\nSTOP\nZ: STOP 1",
     "P = 65536\nR = 3\nMOV R, (P)",
     "P = -65537\nMUL (P), 2, 2",
     "A = 70000\nADD A, 1, 2",
     "A = -5\nR = 3\nSUB R, A, 1",
     "P = 4\nMOV P, 65536\nBGT (P), 0, Z\nZ: STOP"}

\* Calls inside calls, and a subroutine that overwrites its return cell.
StackSources ==
    {"JSR OUTER\nOUT 1\nSTOP\nOUTER: JSR INNER\nOUT 2\nRTS\nINNER: OUT 3\nRTS",
     "S = 65500\nJSR F\nSTOP\nF: MOV S, 7\nRTS",
     "T = 65501\nMOV T, 3\nRTS\nSTOP T\nOUT T\nSTOP"}

\* OUT whose cells reach an end of the memory, with counts of 0 and below,
\* and OUT whose operands do not resolve.
OutSources ==
    {"A = -1\nE = 65535\nMOV E, 7\nOUT A, 2\nSTOP",
     "A = 65534\nMOV 65535, 9\nOUT A, 4\nSTOP A",
     "P = 2\nMOV P, 65536\nOUT (P), 2\nOUT P, 0\nOUT P, -1\nSTOP",
     "P = 70000\nOUT (P)\nSTOP",
     "OUT 5, Q",
     "A = -65537\nOUT A\nSTOP",
     "OUT\nSTOP"}

\* Immediate operands that name a symbol and a label of one name, a label
\* alone, a number that is also a symbol's name, and no symbol at all.
ResolveSources ==
    {"X = 5\nx: MOV 1, #X\nMOV 2, #x\nOUT 1, 2\nSTOP #X",
     "MOV 1, #end\nMOV 2, #-3\nMOV 3, #007\nEND: STOP #END",
     "5 = 9\nMOV 1, #5\nSTOP 1",
     "MOV 1, #nope\nSTOP"}

\* Branches whose third operand names no label: two that are not taken
\* and one that is.
BranchSources ==
    {"A = 1\nMOV A, 3\nBEQ A, 2, nope\nBGT A, #3, nope\nBEQ A, #3, nope\nSTOP"}

Sources ==
    {DefaultCode, ControlSource} \cup InSources \cup InEdgeSources
        \cup MovSources \cup OperandSources \cup ArithSources \cup ErrorSources
        \cup RangeSources \cup StackSources \cup OutSources
        \cup ResolveSources \cup BranchSources

\* The programs loaded over a machine that has already been used.
Reloads == {DefaultCode}

\* What parse() builds for each program.
Assembled == [source_code \in Sources \cup Reloads |-> parse(source_code)]

\* The texts supplied to provide_input: integers, and texts int() rejects.
InputTexts ==
    {str(v) : v \in (0 - MaxInput)..MaxInput} \cup {" 2 ", "abc", "1.5"}

(***************************************************************************)
(* MainWindow (gui.py): the window that drives the emulator.  A window     *)
(* `self` is a record of the object's attributes: emu, the PicoEmulator it *)
(* owns; timer, whether the run timer is active; code and breakpoints,     *)
(* the editor's text and marked lines; input_enabled, whether the input    *)
(* field accepts text.  Labels, icons and the console text are left out:   *)
(* no handler reads them.                                                  *)
(***************************************************************************)

\* analyze_line's results: nothing, an origin, an instruction.
NoEntry == [kind |-> "None", address |-> 0]
OrgEntry(address) == [kind |-> "ORG", address |-> address]
InsEntry == [kind |-> "INS", address |-> 0]

\* analyze_line past its first three tests; parts is line.split().
analyze_parts(parts) ==
    IF parts = <<>> THEN NoEntry
    ELSE IF upper(parts[1]) = "ORG" /\ Len(parts) > 1
    THEN IF int(parts[2]).exc = "" THEN OrgEntry(int(parts[2]).val) ELSE NoEntry
    ELSE InsEntry

\* analyze_line on a line without its comment and surrounding whitespace.
analyze_stripped(line) ==
    IF line = "" \/ endswith(line, ":") THEN NoEntry
    ELSE IF contains(line, "=") THEN NoEntry
    ELSE analyze_parts(split_ws(line))

\* build_sourcemap.analyze_line(line)
analyze_line(line) == analyze_stripped(strip(split(line, ";")[1]))

\* The body of build_sourcemap's loop; i is the 0-based index of the line.
map_line(st, res, i) ==
    IF res.kind = "None" THEN st
    ELSE IF res.kind = "ORG" THEN [st EXCEPT !.current_address = res.address]
    ELSE [st EXCEPT !.pc_to_line_map = dict_set(@, st.current_address, i),
                    !.current_address = @ + 1]

RECURSIVE map_lines(_, _, _)
map_lines(st, lines, i) ==
    IF i >= Len(lines) THEN st
    ELSE map_lines(map_line(st, analyze_line(lines[i + 1]), i), lines, i + 1)

\* MainWindow.build_sourcemap(code_text): the pc_to_line_map it leaves.
build_sourcemap(code_text) ==
    map_lines([pc_to_line_map |-> EmptyDict, current_address |-> 0],
              split(code_text, "\n"), 0).pc_to_line_map

\* MainWindow.__init__: the attributes of a window just constructed, but
\* for the emulator it owns.
MainWindow ==
    [timer |-> FALSE,
     pc_to_line_map |-> EmptyDict,
     is_code_dirty |-> TRUE,
     program_entry_point |-> 0,
     cycle_count |-> 0,
     was_running_before_input |-> FALSE,
     is_running_session |-> FALSE,
     code |-> "",
     breakpoints |-> {},
     input_enabled |-> FALSE]

\* The window whose attributes are attrs and whose emu is machine, as a
\* handler finds it; made lists the calls the handler makes on emu.
Owning(attrs, machine) ==
    [emu |-> machine,
     made |-> <<>>,
     timer |-> attrs.timer,
     pc_to_line_map |-> attrs.pc_to_line_map,
     is_code_dirty |-> attrs.is_code_dirty,
     program_entry_point |-> attrs.program_entry_point,
     cycle_count |-> attrs.cycle_count,
     was_running_before_input |-> attrs.was_running_before_input,
     is_running_session |-> attrs.is_running_session,
     code |-> attrs.code,
     breakpoints |-> attrs.breakpoints,
     input_enabled |-> attrs.input_enabled]

\* The attributes of the window self but for its emu.
Attributes(self) == [f \in DOMAIN self \ {"emu", "made"} |-> self[f]]

\* MainWindow.update_ui(): the output lines go to the console, the timer
\* stops on a finished or suspended machine, and a suspension found with
\* the timer active is remembered in was_running_before_input.
update_ui(self) ==
    LET shown == [self EXCEPT !.emu.output_buffer = <<>>]
    IN  IF shown.emu.is_finished THEN [shown EXCEPT !.timer = FALSE]
        ELSE IF shown.emu.input_needed > 0
        THEN [shown EXCEPT
                !.was_running_before_input = IF shown.timer THEN TRUE ELSE @,
                !.timer = FALSE,
                !.input_enabled = TRUE]
        ELSE [shown EXCEPT !.input_enabled = FALSE]

\* MainWindow.load_program(): parse() raises nothing, so the build always
\* succeeds and the method returns True.
load_program(self) ==
    update_ui([self EXCEPT
        !.emu = parse_from(reset_of(self.emu), self.code),
        !.made = Append(@, "parse"),
        !.pc_to_line_map = build_sourcemap(self.code),
        !.program_entry_point = parse_from(reset_of(self.emu), self.code).pc,
        !.is_code_dirty = FALSE,
        !.cycle_count = 0,
        !.was_running_before_input = FALSE])

\* "1. Start Session if needed", of toggle_run and manual_step.
start_session(self) ==
    IF ~self.is_running_session \/ self.is_code_dirty
    THEN [load_program(self) EXCEPT !.is_running_session = TRUE]
    ELSE self

\* self.pc_to_line_map.get(self.emu.pc, -1) in self.editor.breakpoints
at_breakpoint(self) ==
    /\ self.emu.pc \in DOMAIN self.pc_to_line_map
    /\ self.pc_to_line_map[self.emu.pc] \in self.breakpoints

\* self.emu.step(); self.cycle_count += 1
emu_step(self) ==
    [self EXCEPT !.emu = step(@),
                 !.made = Append(@, "step"),
                 !.cycle_count = @ + 1]

\* toggle_run on a finished machine: "we just reset internal counters but
\* keep session alive".
restart_finished(self) ==
    IF self.emu.is_finished
    THEN [self EXCEPT !.emu.pc = self.program_entry_point,
                      !.emu.is_finished = FALSE,
                      !.cycle_count = 0]
    ELSE self

\* timer.start() and the last update_ui() of toggle_run.
start_timer(self) == update_ui([self EXCEPT !.timer = TRUE])

\* The "BREAKPOINT LOGIC" of toggle_run, after the step it made.
run_after_breakpoint(stepped) ==
    IF stepped.emu.is_finished \/ stepped.emu.input_needed > 0 THEN stepped
    ELSE start_timer(stepped)

\* The RUN branch of toggle_run.
run_pressed(self) ==
    IF self.emu.input_needed > 0
    THEN update_ui([self EXCEPT !.was_running_before_input = TRUE])
    ELSE IF at_breakpoint(self)
    THEN run_after_breakpoint(update_ui(emu_step(self)))
    ELSE start_timer(self)

\* "2. Toggle Timer"
toggle_timer(self) ==
    IF self.timer
    THEN update_ui([self EXCEPT !.timer = FALSE,
                                !.was_running_before_input = FALSE])
    ELSE run_pressed(restart_finished(self))

\* MainWindow.toggle_run()
toggle_run(self) == toggle_timer(start_session(self))

\* MainWindow.step_execution()
step_execution(self) ==
    IF self.timer /\ at_breakpoint(self)
    THEN update_ui([self EXCEPT !.timer = FALSE,
                                !.was_running_before_input = FALSE])
    ELSE IF self.emu.is_finished \/ self.emu.input_needed > 0
    THEN update_ui(self)
    ELSE update_ui(emu_step(self))

\* MainWindow.manual_step()
manual_step(self) ==
    update_ui(step_execution([start_session(self) EXCEPT !.timer = FALSE]))

\* MainWindow.reset_program()
reset_program(self) ==
    LET loaded == load_program([self EXCEPT
                      !.timer = FALSE,
                      !.was_running_before_input = FALSE,
                      !.is_running_session = FALSE])
    IN  update_ui([loaded EXCEPT !.emu.pc = loaded.program_entry_point,
                                 !.cycle_count = 0])

\* handle_input once provide_input has returned True.
input_accepted(self) ==
    IF self.emu.input_needed # 0 THEN self
    ELSE IF self.was_running_before_input
    THEN update_ui([self EXCEPT !.input_enabled = FALSE, !.timer = TRUE])
    ELSE [self EXCEPT !.input_enabled = FALSE]

\* handle_input with what provide_input gave: an exception leaves the
\* handler at once, False shows a warning.
input_given(self, gave) ==
    LET called == [self EXCEPT !.emu = gave.self,
                               !.made = Append(@, "provide_input")]
    IN  IF gave.exc = "" /\ gave.ret = "True"
        THEN input_accepted(update_ui(called))
        ELSE called

\* MainWindow.handle_input(), text being self.input_field.text().
handle_input(self, text) ==
    IF text = "" THEN self
    ELSE input_given(self, provide_input(self.emu, text))

\* MainWindow.on_code_changed(), the editor holding text.
on_code_changed(self, text) ==
    [self EXCEPT !.code = text, !.is_code_dirty = TRUE]

\* CodeEditor.toggle_breakpoint(line_num)
toggle_breakpoint(self, line_num) ==
    IF line_num \in self.breakpoints
    THEN [self EXCEPT !.breakpoints = @ \ {line_num}]
    ELSE [self EXCEPT !.breakpoints = @ \cup {line_num}]

(***************************************************************************)
(* The state: the emulator object, and the last call made on it with the   *)
(* machine it found and what it gave back to its caller.                   *)
(***************************************************************************)

\* A second emulator object, twin, is constructed anew whenever emu loads
\* a program, loads the same program and receives the same calls.
VARIABLES emu, call, twin

\* The window that owns emu, when a window drives it: its attributes.
VARIABLE win

vars == <<emu, call, twin, win>>

\* PicoEmulator.parse(source_code) called on the object self, used or not:
\* what the pass builds on the machine reset() leaves of it (Assembled
\* holds what it builds on a machine as constructed).
parse_on(self, source_code) ==
    IF reset_of(self) = reset THEN Assembled[source_code]
    ELSE parse_from(reset_of(self), source_code)

\* The opcode and arguments of the instruction self.pc addresses.
fetched(self) == tokenize(self.instructions[self.pc].text)

\* Whether step() on self fetches and executes an instruction.
executes(self) ==
    /\ ~self.is_finished
    /\ self.input_needed = 0
    /\ self.pc \in DOMAIN self.instructions

\* No IN is being served.
NoRequest == [pc |-> 0, addr |-> 0, n |-> 0, k |-> 0]

\* The IN instruction being served, as its caller sees it: the address pc
\* of the instruction, the address addr its operand names, the count n it
\* asked for, and the number k of values provide_input has accepted for it.
asked_after(op, ret, post) ==
    IF op = "parse" THEN NoRequest
    ELSE IF op = "step" /\ executes(emu) /\ post.input_needed > 0
    THEN [pc |-> emu.pc,
          addr |-> resolve_write_target(emu, fetched(emu).args[1]).val,
          n |-> count_arg(emu, fetched(emu).args).val,
          k |-> 0]
    ELSE IF op = "provide_input" /\ ret = "True"
    THEN [call.asked EXCEPT !.k = @ + 1]
    ELSE call.asked

\* No call frame.
NoFrame == [ret |-> 0 - 1, sp |-> 0 - 1]

\* The calls in progress, as their caller sees them: for each JSR executed
\* to its end and not yet returned from, the address after it (ret) and
\* the stack pointer it found (sp).
frames_after(op, post) ==
    IF op = "parse" THEN <<>>
    ELSE IF op = "step" /\ executes(emu) /\ post.last_error = ""
            /\ fetched(emu).opcode = "JSR"
    THEN Append(call.frames, [ret |-> emu.pc + 1, sp |-> emu.sp])
    ELSE IF op = "step" /\ executes(emu) /\ fetched(emu).opcode = "RTS"
            /\ Len(call.frames) > 0
    THEN SubSeq(call.frames, 1, Len(call.frames) - 1)
    ELSE call.frames

\* The call an RTS has just returned from, NoFrame after any other call.
returned_after(op) ==
    IF op = "step" /\ executes(emu) /\ fetched(emu).opcode = "RTS"
            /\ Len(call.frames) > 0
    THEN call.frames[Len(call.frames)]
    ELSE NoFrame

\* The record of a call: the machine it found (pre), its argument, the
\* value it returned, the exception that escaped it, whether the call
\* before it was a rejected provide_input, the IN being served, the source
\* text the machine was last loaded from, the values provide_input has
\* accepted since, the subroutine calls in progress and the one just
\* returned from.
Called(op, a, ret, exc, post) ==
    [op |-> op, arg |-> a, ret |-> ret, exc |-> exc, pre |-> emu,
     after_reject |-> call.op = "provide_input" /\ call.ret = "False",
     asked |-> asked_after(op, ret, post),
     source |-> IF op = "parse" THEN a ELSE call.source,
     accepted |-> IF op = "parse" THEN <<>>
                  ELSE IF op = "provide_input" /\ ret = "True"
                  THEN Append(call.accepted, int(a).val)
                  ELSE call.accepted,
     frames |-> frames_after(op, post),
     returned |-> returned_after(op)]

\* PicoEmulator(): __init__ calls reset().
Init ==
    /\ emu = reset
    /\ twin = reset
    /\ win = MainWindow
    /\ call = [op |-> "__init__", arg |-> "", ret |-> "None", exc |-> "",
               pre |-> reset, after_reject |-> FALSE, asked |-> NoRequest,
               source |-> "", accepted |-> <<>>, frames |-> <<>>,
               returned |-> NoFrame]

\* What a call that left the machine `post` leaves.
Leaves(op, a, ret, exc, post) ==
    /\ emu' = post
    /\ call' = Called(op, a, ret, exc, post)
    /\ win' = win

\* emu.parse(source_code)
Parse(source_code) ==
    /\ Leaves("parse", source_code, "None", "", parse_on(emu, source_code))
    /\ twin' = parse_on(reset, source_code)

\* emu.step()
Step ==
    /\ call.op # "__init__"
    /\ Leaves("step", "", "None", "", step(emu))
    /\ twin' = step(twin)

\* What a provide_input call that gave `gave` leaves.
Provided(value, gave) ==
    Leaves("provide_input", value, gave.ret, gave.exc, gave.self)

\* emu.provide_input(value)
ProvideInput(value) ==
    /\ call.op # "__init__"
    /\ Provided(value, provide_input(emu, value))
    /\ twin' = provide_input(twin, value).self

\* The first program loaded into a constructed machine.
Load == \E source_code \in Sources : call.op = "__init__" /\ Parse(source_code)

\* A program loaded over a used machine.
Reload == \E source_code \in Reloads : call.op # "__init__" /\ Parse(source_code)

Input == \E value \in InputTexts : ProvideInput(value)

Next == Load \/ Reload \/ Step \/ Input

Spec == Init /\ [][Next]_vars

(***************************************************************************)
(* The vocabulary of the properties: what the last call found and did.     *)
(***************************************************************************)

\* The last call was a step() that fetched and executed an instruction.
Executed == call.op = "step" /\ executes(call.pre)

\* The last call was a step() that executed an instruction of this opcode.
ExecutedOp(opcode) == Executed /\ fetched(call.pre).opcode = opcode

\* The i-th argument (from 1) of the instruction the last step() executed.
Operand(i) == fetched(call.pre).args[i]

\* The instruction the last step() executed had at least n arguments.
HasOperands(n) == Len(fetched(call.pre).args) >= n

\* The value operand i had before the last step(), as an evaluation.
ValueBefore(i) == resolve_value(call.pre, Operand(i))

\* The last step() ended in the except clause.
Faulted == emu.last_error # ""

(***************************************************************************)
(* C1. FINISHED is absorbing: a step() or provide_input() call made on a   *)
(* finished machine leaves the whole machine state unchanged (pc, sp,      *)
(* memory, output_buffer, last_error, input_needed, input_dest_addr and    *)
(* is_finished among it), so the machine stays finished until parse().     *)
(***************************************************************************)
C1_FinishedIsAbsorbing ==
    (call.op \in {"step", "provide_input"} /\ call.pre.is_finished)
        => emu = call.pre

\* Both calls are made on a finished machine: a step() after STOP, a
\* provide_input() after a fatal error.
C1_CalledWhenFinished ==
    /\ call.pre.is_finished
    /\ \/ call.op = "step" /\ call.pre.last_error = ""
       \/ call.op = "provide_input" /\ call.pre.last_error # ""
    /\ emu.is_finished

(***************************************************************************)
(* C2. In every state reachable through parse(), step() and                *)
(* provide_input(), a non-empty last_error implies is_finished.            *)
(***************************************************************************)
C2_ErrorImpliesFinished == emu.last_error # "" => emu.is_finished

\* A step() has just recorded an error raised by an instruction.
C2_ErrorRecorded ==
    /\ Executed
    /\ emu.last_error # ""
    /\ call.pre.last_error = ""

(***************************************************************************)
(* C3. While input_needed > 0, step() executes no instruction: it leaves   *)
(* pc, sp, memory, output_buffer, is_finished, last_error, input_needed    *)
(* and input_dest_addr (the whole machine) unchanged, at every call.       *)
(***************************************************************************)
C3_SuspendedStepIsNoOp ==
    (call.op = "step" /\ call.pre.input_needed > 0) => emu = call.pre

\* step() is called on a machine that has taken one value of several and
\* awaits the next.
C3_SteppedWhileSuspended ==
    /\ call.op = "step"
    /\ call.pre.input_needed > 0
    /\ call.asked.k > 0

(***************************************************************************)
(* C4. After step() executes `IN X, n` with n > 0 at address a, the k-th   *)
(* successful provide_input call (k = 1..n) writes its value to            *)
(* memory[addr(X) + k - 1] and to no other cell; pc stays a after each of  *)
(* the first n-1 calls and becomes a + 1 exactly after the n-th, when      *)
(* input_needed is 0.  The suspending step() itself leaves pc at a.        *)
(***************************************************************************)
C4_InputSequence ==
    /\ (Executed /\ emu.input_needed > 0)
            => /\ emu.pc = call.asked.pc
               /\ emu.input_needed = call.asked.n
               /\ call.asked.k = 0
    /\ (call.op = "provide_input" /\ call.ret = "True")
            => /\ call.asked.k \in 1..call.asked.n
               /\ emu.memory = mem_set(call.pre.memory,
                                       call.asked.addr + call.asked.k - 1,
                                       int(call.arg).val)
               /\ emu.input_needed = call.asked.n - call.asked.k
               /\ emu.pc = IF call.asked.k < call.asked.n
                           THEN call.asked.pc ELSE call.asked.pc + 1

\* The third value of an `IN X, 3` has been stored.
C4_ThirdValueStored ==
    /\ call.op = "provide_input"
    /\ call.ret = "True"
    /\ call.asked.n = 3
    /\ call.asked.k = 3
    /\ int(call.arg).val # 0

(***************************************************************************)
(* C5. provide_input returns false and leaves the whole machine state      *)
(* unchanged whenever no input is awaited or the supplied text does not    *)
(* parse as an integer; after a rejected call a later valid call (input    *)
(* awaited, text an integer) still succeeds and writes to the same         *)
(* destination address.                                                    *)
(***************************************************************************)

\* The first half: a call with nothing awaited or with a text that is not
\* an integer returns False and changes nothing.
C5_RejectionLeavesState ==
    (/\ call.op = "provide_input"
     /\ call.pre.input_needed = 0 \/ int(call.arg).exc # "")
        => call.ret = "False" /\ emu = call.pre

\* The second half: the valid call that follows a rejected one returns
\* True and its value is in the cell input_dest_addr named.
C5_AcceptedAfterRejection ==
    (/\ call.op = "provide_input"
     /\ call.after_reject
     /\ call.pre.input_needed > 0
     /\ int(call.arg).exc = "")
        => /\ call.ret = "True"
           /\ mem_get(emu.memory, call.pre.input_dest_addr) = int(call.arg).val

C5_RejectedInput == C5_RejectionLeavesState /\ C5_AcceptedAfterRejection

(***************************************************************************)
(* C6. No call of step() or provide_input() raises an exception to its     *)
(* caller: every failure is reported through is_finished and last_error    *)
(* or through a false return value.                                        *)
(***************************************************************************)
C6_NoExceptionEscapes ==
    call.op \in {"step", "provide_input"} => call.exc = ""

(***************************************************************************)
(* C7. For every step() that executes an instruction other than a taken    *)
(* BEQ, a taken BGT, a JSR, an RTS or a suspending IN (Count > 0), pc      *)
(* after the step equals pc before the step plus 1.                        *)
(***************************************************************************)

\* The condition of the BEQ or BGT the last step() executed held.
BranchConditionHeld ==
    /\ HasOperands(2)
    /\ ValueBefore(1).exc = ""
    /\ ValueBefore(2).exc = ""
    /\ branch_taken(fetched(call.pre).opcode, ValueBefore(1).val, ValueBefore(2).val)

\* The last step() executed one of the instructions that set the pc
\* themselves or hold it.
SetsOwnPc ==
    \/ fetched(call.pre).opcode \in {"JSR", "RTS"}
    \/ fetched(call.pre).opcode \in {"BEQ", "BGT"} /\ BranchConditionHeld
    \/ fetched(call.pre).opcode = "IN" /\ emu.input_needed > 0

\* The claim as stated: violated by an instruction that raises.
C7_PcAdvancesByOne ==
    (Executed /\ ~SetsOwnPc) => emu.pc = call.pre.pc + 1

\* C7 as it holds: for every step() that executes an instruction other
\* than a taken BEQ, a taken BGT, a JSR, an RTS or a suspending IN, and
\* that does not end in a fatal error, pc after the step is pc before it
\* plus 1; a step() that ends in a fatal error leaves pc where it was.
C7_PcAdvancesUnlessFault ==
    /\ (Executed /\ ~SetsOwnPc /\ ~Faulted) => emu.pc = call.pre.pc + 1
    /\ (Executed /\ Faulted) => emu.pc = call.pre.pc

\* A BGT whose condition does not hold has fallen through.
C7_BranchFellThrough ==
    /\ ExecutedOp("BGT")
    /\ ~SetsOwnPc
    /\ ~Faulted
    /\ emu.pc = call.pre.pc + 1

(***************************************************************************)
(* C8. A step() that executes IN whose Count operand resolves to a value   *)
(* <= 0 performs nothing: input_needed stays 0 (no suspension) and pc is   *)
(* not advanced by that step, so the next step() fetches the same IN.      *)
(***************************************************************************)

\* The last step() executed an IN whose operands resolved, the count to a
\* value <= 0.
InWithoutCount ==
    /\ ExecutedOp("IN")
    /\ HasOperands(2)
    /\ resolve_write_target(call.pre, Operand(1)).exc = ""
    /\ ValueBefore(2).exc = ""
    /\ ValueBefore(2).val <= 0

\* The claim as stated: violated, the pc moves.
C8_InWithoutCountHoldsPc ==
    InWithoutCount => emu.input_needed = 0 /\ emu.pc = call.pre.pc

\* C8 as it holds: a step() that executes IN whose Count operand resolves
\* to a value <= 0 does not suspend (input_needed stays 0) and changes
\* nothing but the pc, which it advances by 1: the next step() fetches the
\* instruction after the IN.
C8_InWithoutCountAdvances ==
    InWithoutCount => emu = [call.pre EXCEPT !.pc = @ + 1]

\* An IN with a negative count has been executed and the next step() will
\* fetch the instruction after it.
C8_NegativeCountExecuted ==
    /\ InWithoutCount
    /\ ValueBefore(2).val < 0
    /\ emu.pc \in DOMAIN emu.instructions
    /\ emu.instructions[emu.pc] # call.pre.instructions[call.pre.pc]

(***************************************************************************)
(* C9. Conservation under MOV: for every memory state and every            *)
(* addressing-mode combination of destination A (direct SYM or indirect    *)
(* (SYM)) and source B (immediate, direct or indirect), after a successful *)
(* `MOV A, B` reading operand A yields exactly the value operand B had     *)
(* before the MOV.                                                         *)
(***************************************************************************)

\* The stripped, upper-cased operand names a symbol, directly or inside
\* parentheses.
names_symbol(op) ==
    IF is_indirect(op) THEN ~is_number(upper(strip(inner_of(op))))
    ELSE ~is_number(op) /\ ~startswith(op, "#")

\* The last step() executed a MOV with a symbolic destination to its end.
Moved ==
    /\ ExecutedOp("MOV")
    /\ ~Faulted
    /\ names_symbol(upper(strip(Operand(1))))

\* The location of the pointer cell of the indirect operand op.
pointer_cell(self, op) ==
    cell_of(resolve_symbol(self, inner_of(upper(strip(op)))).val)

\* The destination of the MOV is indirect and its pointer cell holds its
\* own address, so that the MOV writes the pointer cell.
WritesOwnPointer ==
    /\ is_indirect(upper(strip(Operand(1))))
    /\ mem_get(call.pre.memory, pointer_cell(call.pre, Operand(1)))
            = pointer_cell(call.pre, Operand(1))

\* The claim as stated, the self-pointing destination included: violated.
C9_MovConserves ==
    Moved => resolve_value(emu, Operand(1)) = Ok(ValueBefore(2).val)

\* C9 as it holds: after a successful `MOV A, B`, reading A yields exactly
\* the value B had before the MOV, for every combination of addressing
\* modes, unless A is indirect and its pointer cell points at itself: the
\* MOV then replaces the pointer by the value, and reading A reads through
\* the new pointer.
C9_MovConservesUnlessOwnPointer ==
    /\ (Moved /\ ~WritesOwnPointer)
            => resolve_value(emu, Operand(1)) = Ok(ValueBefore(2).val)
    /\ (Moved /\ WritesOwnPointer)
            => /\ mem_get(emu.memory, pointer_cell(call.pre, Operand(1)))
                    = ValueBefore(2).val
               /\ resolve_value(emu, Operand(1))
                    = read_checked(emu, ValueBefore(2).val,
                                   "Indirect access out of bounds: ")

\* An indirect source has been moved to an indirect destination that does
\* not point at its own pointer cell.
C9_IndirectToIndirect ==
    /\ Moved
    /\ is_indirect(upper(strip(Operand(1))))
    /\ is_indirect(upper(strip(Operand(2))))
    /\ ~WritesOwnPointer
    /\ ValueBefore(2).val # 0
    /\ resolve_value(emu, Operand(1)).val = ValueBefore(2).val

(***************************************************************************)
(* C10. DIV uses floor division: for all operand values a and b # 0 of the *)
(* range explored, `DIV Dest, a, b` stores in Dest the floor of a / b, the *)
(* one q with q*b <= a < (q+1)*b when b > 0 and q*b >= a > (q+1)*b when    *)
(* b < 0 (so 7, 2 gives 3 and -7, 2 gives -4), never the truncated         *)
(* quotient where the two differ.                                          *)
(***************************************************************************)

\* q is the floor of a / b.
IsFloor(q, a, b) ==
    IF b > 0 THEN q * b <= a /\ a < (q + 1) * b
    ELSE q * b >= a /\ a > (q + 1) * b

\* The last step() executed a DIV to its end.
Divided == ExecutedOp("DIV") /\ ~Faulted

\* The cell Dest named before the step, as the step left it.
StoredInDest ==
    mem_get(emu.memory, resolve_write_target(call.pre, Operand(1)).val)

C10_DivFloors ==
    Divided => /\ ValueBefore(3).val # 0
               /\ IsFloor(StoredInDest, ValueBefore(2).val, ValueBefore(3).val)

\* -7 has been divided by 2 and -4 stored, where truncation gives -3.
C10_NegativeDividend ==
    /\ Divided
    /\ ValueBefore(2).val = 0 - 7
    /\ ValueBefore(3).val = 2
    /\ StoredInDest = 0 - 4

(***************************************************************************)
(* C11. A step() that executes `DIV R, A, Z` where Z resolves to 0 sets    *)
(* is_finished and sets last_error to a text holding the 1-based number of *)
(* the source line of that DIV, and leaves the cell of R and all other     *)
(* memory (the whole machine but those two fields) as it was.              *)
(***************************************************************************)

\* The 1-based numbers of the lines of the loaded source whose code, the
\* comment removed, ends with the instruction text.
LinesHolding(text) ==
    LET lines == split(call.source, "\n")
    IN  {n \in 1..Len(lines) : endswith(strip(Head(split(lines[n], ";"))), text)}

\* The last step() executed a DIV whose operands resolved, the divisor
\* to 0.
DividedByZero ==
    /\ ExecutedOp("DIV")
    /\ HasOperands(3)
    /\ ValueBefore(2).exc = ""
    /\ ValueBefore(3).exc = ""
    /\ ValueBefore(3).val = 0

C11_DivByZeroIsFatal ==
    DividedByZero =>
        \E n \in LinesHolding(call.pre.instructions[call.pre.pc].text) :
            emu = [call.pre EXCEPT
                     !.is_finished = TRUE,
                     !.last_error = "Error line " \o str(n) \o ": Division by zero"]

\* A DIV on the fourth line of its source, after a blank line, has divided
\* by 0 while R held 5.
C11_DivByZeroOnLineFour ==
    /\ DividedByZero
    /\ emu.last_error = "Error line 4: Division by zero"
    /\ StoredInDest = 5

(***************************************************************************)
(* C12. A BEQ or BGT whose condition holds, or a JSR, that names a label   *)
(* absent from the label table ends the machine in a fatal error           *)
(* (is_finished, last_error non-empty) and transfers control nowhere (pc   *)
(* unchanged), even when the symbol table holds the same name.             *)
(***************************************************************************)

\* The last step() executed a taken BEQ or BGT, or a JSR, whose label the
\* label table lacks.
LabelMissing ==
    \/ /\ Executed
       /\ fetched(call.pre).opcode \in {"BEQ", "BGT"}
       /\ HasOperands(3)
       /\ BranchConditionHeld
       /\ upper(Operand(3)) \notin DOMAIN call.pre.labels
    \/ /\ ExecutedOp("JSR")
       /\ HasOperands(1)
       /\ upper(Operand(1)) \notin DOMAIN call.pre.labels

C12_MissingLabelIsFatal ==
    LabelMissing => /\ emu.is_finished
                    /\ emu.last_error # ""
                    /\ emu.pc = call.pre.pc

\* A taken BGT has named a symbol that is no label.
C12_BranchToSymbol ==
    /\ LabelMissing
    /\ fetched(call.pre).opcode = "BGT"
    /\ upper(Operand(3)) \in DOMAIN call.pre.registers
    /\ emu.is_finished

(***************************************************************************)
(* C13. Any MOV, ADD, SUB, MUL, DIV, BEQ or BGT whose operand resolution   *)
(* would read or write a memory cell at an address outside 0..65535 (a     *)
(* direct address, the pointer cell of an indirect operand, or the         *)
(* pointer's target, negative addresses included) ends the machine with    *)
(* is_finished and a non-empty last_error, and neither reads nor writes an *)
(* in-range cell in place of the out-of-range one.                         *)
(***************************************************************************)

\* The indirect operand op has its pointer cell outside the memory.
pointer_outside(self, op) ==
    /\ is_indirect(op)
    /\ resolve_symbol(self, inner_of(op)).exc = ""
    /\ ~in_memory(resolve_symbol(self, inner_of(op)).val)

\* The indirect operand op has its pointer cell inside the memory and the
\* address it holds outside.
target_outside(self, op) ==
    /\ is_indirect(op)
    /\ resolve_symbol(self, inner_of(op)).exc = ""
    /\ in_memory(resolve_symbol(self, inner_of(op)).val)
    /\ ~in_memory(mem_get(self.memory, resolve_symbol(self, inner_of(op)).val))

\* The direct operand op names an address outside the memory; as a source,
\* a number or a #-operand is a value and names no address.
direct_outside(self, op, written) ==
    /\ ~is_indirect(op)
    /\ written \/ ~(startswith(op, "#") \/ is_number(op))
    /\ resolve_symbol(self, op).exc = ""
    /\ ~in_memory(resolve_symbol(self, op).val)

\* Resolving the operand would touch a cell outside 0..MemSize-1.
outside(self, operand, written) ==
    \/ pointer_outside(self, upper(strip(operand)))
    \/ target_outside(self, upper(strip(operand)))
    \/ direct_outside(self, upper(strip(operand)), written)

\* The argument positions the opcode reads, and the one it writes.
positions_read(opcode) ==
    IF opcode = "MOV" THEN {2}
    ELSE IF opcode \in {"BEQ", "BGT"} THEN {1, 2}
    ELSE {2, 3}

position_written(opcode) == IF opcode \in {"BEQ", "BGT"} THEN {} ELSE {1}

\* The last step() executed one of the seven instructions with all its
\* operands.
ExecutedOperands ==
    /\ Executed
    /\ fetched(call.pre).opcode
            \in {"MOV", "ADD", "SUB", "MUL", "DIV", "BEQ", "BGT"}
    /\ HasOperands(IF fetched(call.pre).opcode = "MOV" THEN 2 ELSE 3)

\* One of its operands has its pointer cell outside the memory.
PointerCellOutside ==
    \E i \in positions_read(fetched(call.pre).opcode)
            \cup position_written(fetched(call.pre).opcode) :
        pointer_outside(call.pre, upper(strip(Operand(i))))

\* One of its operands names a cell outside the memory.
OperandOutside ==
    \/ \E i \in positions_read(fetched(call.pre).opcode) :
            outside(call.pre, Operand(i), FALSE)
    \/ \E i \in position_written(fetched(call.pre).opcode) :
            outside(call.pre, Operand(i), TRUE)

\* The claim as stated: violated by a pointer cell at a negative address.
C13_OutsideIsFatal ==
    (ExecutedOperands /\ OperandOutside)
        => /\ emu.is_finished
           /\ emu.last_error # ""
           /\ emu.memory = call.pre.memory

\* What the code does check: direct addresses and pointer targets outside
\* the memory are fatal and nothing is written.
C13_CheckedAddressesAreFatal ==
    (ExecutedOperands /\ OperandOutside /\ ~PointerCellOutside)
        => /\ emu.is_finished
           /\ emu.last_error # ""
           /\ emu.memory = call.pre.memory

\* A pointer cell outside the memory is fatal at an address that is no
\* index of the Python list: below -MemSize or from MemSize on.
C13_PointerCellOutsideList ==
    (/\ ExecutedOperands
     /\ \E i \in positions_read(fetched(call.pre).opcode)
                \cup position_written(fetched(call.pre).opcode) :
            /\ pointer_outside(call.pre, upper(strip(Operand(i))))
            /\ ~valid_index(resolve_symbol(call.pre,
                                inner_of(upper(strip(Operand(i))))).val))
        => /\ emu.is_finished
           /\ emu.last_error # ""
           /\ emu.memory = call.pre.memory

(***************************************************************************)
(* C14. A step() taken when pc is no address of the instruction table, on  *)
(* a machine neither finished nor awaiting input, sets is_finished and     *)
(* sets last_error to a non-empty text and changes nothing else (pc, sp,   *)
(* memory and output_buffer among it); a program that runs off its end     *)
(* without STOP so ends in the error state.                                *)
(***************************************************************************)

\* The last call was a step() that found no instruction at pc.
FetchedNothing ==
    /\ call.op = "step"
    /\ ~call.pre.is_finished
    /\ call.pre.input_needed = 0
    /\ call.pre.pc \notin DOMAIN call.pre.instructions

C14_MissingInstructionIsFatal ==
    FetchedNothing =>
        /\ emu.last_error # ""
        /\ emu = [call.pre EXCEPT !.is_finished = TRUE,
                                  !.last_error = emu.last_error]

\* A program has run off its end: the instruction before pc exists and
\* has been executed, memory written by it.
C14_RanOffEnd ==
    /\ FetchedNothing
    /\ call.pre.pc - 1 \in DOMAIN call.pre.instructions
    /\ call.pre.memory # EmptyDict
    /\ emu.is_finished
    /\ emu.last_error = "End of program or invalid PC: " \o str(call.pre.pc)

(***************************************************************************)
(* The default program run to its end: the machine as the GUI loads it at  *)
(* start-up, stepped by the run timer, its inputs typed by the user.       *)
(***************************************************************************)

\* The inputs of the worked example beside the small ones.
GcdInputTexts == InputTexts \cup {"25", "10"}

GcdInit ==
    /\ emu = Assembled[DefaultCode]
    /\ twin = Assembled[DefaultCode]
    /\ win = MainWindow
    /\ call = [op |-> "parse", arg |-> DefaultCode, ret |-> "None", exc |-> "",
               pre |-> reset, after_reject |-> FALSE, asked |-> NoRequest,
               source |-> DefaultCode, accepted |-> <<>>, frames |-> <<>>,
               returned |-> NoFrame]

GcdInput == \E value \in GcdInputTexts : ProvideInput(value)

GcdNext == Step \/ GcdInput

\* A step() call would change the state: ENABLED <<Step>>_vars, written
\* out on the variables.
StepActs ==
    /\ call.op # "__init__"
    /\ <<step(emu), Called("step", "", "None", "", step(emu)), step(twin)>> # vars

\* The run timer keeps calling step(): weak fairness of Step, that is
\* WF_vars(Step) with its enabling condition written out as StepActs.
StepIsFair == []<>(~StepActs) \/ []<><<Step>>_vars

GcdSpec == GcdInit /\ [][GcdNext]_vars /\ StepIsFair

(***************************************************************************)
(* C15. End-to-end Euclidean GCD: for the default program and every pair   *)
(* of positive integers a, b of the range explored supplied to its single  *)
(* `IN M, 2`, repeated step() calls eventually reach is_finished with      *)
(* last_error empty and exactly one output line, the text of gcd(a, b)     *)
(* ("5" for 25 and 10); no line is output before.                          *)
(***************************************************************************)

\* The greatest of the common divisors of two positive integers.
GreatestCommonDivisor(a, b) ==
    CHOOSE d \in 1..a :
        /\ a % d = 0 /\ b % d = 0
        /\ \A e \in 1..a : (a % e = 0 /\ b % e = 0) => e <= d

\* Both values of the IN have been accepted and are positive.
GcdStarted ==
    /\ call.source = DefaultCode
    /\ Len(call.accepted) = 2
    /\ call.accepted[1] > 0
    /\ call.accepted[2] > 0

\* The line the run is to output.
GcdLine ==
    IF GcdStarted
    THEN str(GreatestCommonDivisor(call.accepted[1], call.accepted[2]))
    ELSE ""

\* The run has ended as it should.
GcdOutput ==
    /\ emu.is_finished
    /\ emu.last_error = ""
    /\ emu.output_buffer = <<GcdLine>>

\* No line but that one is ever output.
GcdOutputSoFar == emu.output_buffer = <<>> \/ emu.output_buffer = <<GcdLine>>

C15_GcdComputed ==
    /\ [](GcdStarted => /\ GcdOutputSoFar
                        /\ emu.is_finished => GcdOutput)
    /\ (GcdStarted ~> GcdOutput)

\* The run on 25 and 10 has ended with the line "5".
C15_GcdOf25And10 ==
    /\ GcdStarted
    /\ call.accepted = <<25, 10>>
    /\ emu.is_finished
    /\ emu.last_error = ""
    /\ emu.output_buffer = <<"5">>

Called_JSR ==
    /\ ExecutedOp("JSR")
    /\ HasOperands(1)
    /\ upper(Operand(1)) \in DOMAIN call.pre.labels
    /\ in_memory(call.pre.sp)

\* The last step() executed an RTS that found the stack as the innermost
\* call in progress had left it.
Returned_RTS ==
    /\ ExecutedOp("RTS")
    /\ call.returned # NoFrame
    /\ call.pre.sp = call.returned.sp - 1
    /\ mem_get(call.pre.memory, call.returned.sp) = call.returned.ret

C17_JsrRtsRoundTrip ==
    /\ Called_JSR
            => /\ emu.memory = mem_set(call.pre.memory, call.pre.sp, call.pre.pc + 1)
               /\ emu.sp = call.pre.sp - 1
               /\ emu.pc = call.pre.labels[upper(Operand(1))]
               /\ ~Faulted
    /\ Returned_RTS
            => /\ emu.sp = call.returned.sp
               /\ emu.pc = call.returned.ret
               /\ emu.memory = call.pre.memory
               /\ ~Faulted

\* An RTS has returned from a call made inside another call, to the
\* instruction after the inner JSR, the outer call still in progress.
C17_ReturnedFromInnerCall ==
    /\ Returned_RTS
    /\ Len(call.frames) = 1
    /\ emu.pc = call.returned.ret
    /\ emu.sp = call.frames[1].sp - 1
    /\ emu.pc - 1 \in DOMAIN emu.instructions
    /\ tokenize(emu.instructions[emu.pc - 1].text).opcode = "JSR"

(***************************************************************************)
(* C18. An RTS that would move the stack pointer past the end of memory    *)
(* (sp + 1 >= 65536) ends the machine in a fatal stack-underflow error     *)
(* (is_finished, last_error non-empty and naming the stack underflow) and  *)
(* does not change pc.                                                     *)
(***************************************************************************)

\* The last step() executed an RTS from a stack pointer whose successor is
\* past the end of the memory.
Underflowed ==
    /\ ExecutedOp("RTS")
    /\ call.pre.sp + 1 >= MemSize

C18_StackUnderflowIsFatal ==
    Underflowed =>
        /\ emu.is_finished
        /\ emu.last_error # ""
        /\ \E n \in LinesHolding(call.pre.instructions[call.pre.pc].text) :
               emu.last_error = "Error line " \o str(n) \o ": Stack underflow"
        /\ emu.pc = call.pre.pc

\* An RTS has run with the stack pointer on the last cell of the memory.
C18_ReturnedFromLastCell ==
    /\ Underflowed
    /\ call.pre.sp = MemSize - 1
    /\ emu.is_finished
    /\ emu.sp = MemSize

(***************************************************************************)
(* C19. The stack-cell write of JSR is bounds-checked: after any sequence  *)
(* of JSR instructions (calls nested deeper than the stack region, driving *)
(* sp below 0, included), a JSR executed with sp outside 0..65535 ends the *)
(* machine in a fatal error and writes no memory cell.                     *)
(*                                                                         *)
(* The stack pointer leaves the memory downwards only after InitSP + 1     *)
(* calls in progress.  RecursionSpec runs a subroutine that calls itself   *)
(* without end, from the loaded machine and from the machine the same      *)
(* program has reached Margin calls before the stack pointer reaches 0.    *)
(***************************************************************************)

\* A subroutine that calls itself without end.
RecursionSource == "L: JSR L"

\* The calls followed from the loaded machine.
Window == 120

\* The calls followed on each side of the stack pointer reaching 0.
Margin == 3

\* The machine k steps into RecursionSource, 0 <= k <= InitSP + 1: every
\* step is a JSR at address 0 that stores 1 in memory[sp] and decrements sp.
Nested(k) ==
    [parse(RecursionSource) EXCEPT
        !.sp = InitSP - k,
        !.memory = [c \in (InitSP - k + 1)..InitSP |-> 1],
        !.touched_memory = (InitSP - k + 1)..InitSP]

\* The record of the call that led to Nested(k).
NestedCall(k) ==
    [op |-> IF k = 0 THEN "parse" ELSE "step",
     arg |-> IF k = 0 THEN RecursionSource ELSE "",
     ret |-> "None", exc |-> "",
     pre |-> IF k = 0 THEN reset ELSE Nested(k - 1),
     after_reject |-> FALSE, asked |-> NoRequest,
     source |-> RecursionSource, accepted |-> <<>>,
     frames |-> [i \in 1..k |-> [ret |-> 1, sp |-> InitSP - i + 1]],
     returned |-> NoFrame]

RecursionInit ==
    \E k \in {0, InitSP - Margin} :
        /\ emu = Nested(k)
        /\ twin = Nested(k)
        /\ win = MainWindow
        /\ call = NestedCall(k)

\* The timer's step, followed Window calls deep from the loaded machine
\* and until the stack pointer is Margin cells below 0.
RecursionStep ==
    /\ \/ emu.sp > InitSP - Window
       \/ emu.sp <= Margin /\ emu.sp > 0 - Margin
    /\ Step

RecursionNext == RecursionStep

RecursionSpec == RecursionInit /\ [][RecursionNext]_vars

\* While the stack pointer is inside the memory the machine is the one
\* Nested describes, its record included.
NestedAsDescribed ==
    emu.sp >= 0 =>
        /\ emu = Nested(InitSP - emu.sp)
        /\ call = NestedCall(InitSP - emu.sp)

\* The last step() executed a JSR from a stack pointer outside 0..65535.
CalledOutsideMemory ==
    /\ ExecutedOp("JSR")
    /\ ~in_memory(call.pre.sp)

\* The claim; violated by the JSR executed with sp = -1, which stores its
\* return address in memory[65535] and goes on.
C19_StackWriteIsChecked ==
    CalledOutsideMemory =>
        /\ emu.is_finished
        /\ emu.last_error # ""
        /\ emu.memory = call.pre.memory

\* What the code does below 0: down to -65536 the write wraps to the cell
\* sp + 65536 and the call goes on.
C19_StackWriteWraps ==
    CalledOutsideMemory /\ valid_index(call.pre.sp) =>
        /\ ~emu.is_finished
        /\ emu.last_error = ""
        /\ emu.memory = mem_set(call.pre.memory, call.pre.sp + MemSize, call.pre.pc + 1)
        /\ emu.sp = call.pre.sp - 1

(***************************************************************************)
(* C20. BEQ sets pc to the label's address exactly when value(Val1) =      *)
(* value(Val2), and BGT exactly when value(Val1) > value(Val2); otherwise  *)
(* pc becomes pc + 1; in both cases memory, sp and output_buffer are       *)
(* unchanged.  (Val1 and Val2 are operands that resolve, and the label of  *)
(* a branch that is taken is defined: C12 is the case where it is not.)    *)
(***************************************************************************)

\* The last step() executed the branch instruction opcode with its three
\* operands, the first two resolving to values.
Branched(opcode) ==
    /\ ExecutedOp(opcode)
    /\ HasOperands(3)
    /\ ValueBefore(1).exc = ""
    /\ ValueBefore(2).exc = ""

\* pc after a branch whose condition is holds: the label's address when
\* it holds and the label is defined, pc + 1 when it does not hold.
BranchedOn(holds) ==
    LET label == upper(Operand(3))
    IN  IF ~holds
        THEN emu.pc = call.pre.pc + 1 /\ ~Faulted
        ELSE label \in DOMAIN call.pre.labels
                => emu.pc = call.pre.labels[label] /\ ~Faulted

C20_BranchSetsPc ==
    /\ Branched("BEQ") => BranchedOn(ValueBefore(1).val = ValueBefore(2).val)
    /\ Branched("BGT") => BranchedOn(ValueBefore(1).val > ValueBefore(2).val)
    /\ (ExecutedOp("BEQ") \/ ExecutedOp("BGT"))
            => /\ emu.memory = call.pre.memory
               /\ emu.sp = call.pre.sp
               /\ emu.output_buffer = call.pre.output_buffer

\* A BEQ on equal values read from memory has jumped to a label that is
\* not the next instruction.
C20_BeqJumped ==
    /\ Branched("BEQ")
    /\ ValueBefore(1).val = ValueBefore(2).val
    /\ upper(Operand(3)) \in DOMAIN call.pre.labels
    /\ emu.pc = call.pre.labels[upper(Operand(3))]
    /\ emu.pc # call.pre.pc + 1
    /\ emu.memory # EmptyDict

(***************************************************************************)
(* C21. A successfully executed `OUT Src, Count` appends exactly one line  *)
(* to output_buffer, consisting of the values memory[start + i] for        *)
(* i = 0..Count-1 in increasing i, where start is the resolved start       *)
(* address of Src and every address start + i that lies outside 0..65535   *)
(* (above the top or below 0) is skipped rather than read; memory is left  *)
(* unchanged.                                                              *)
(***************************************************************************)

\* The last step() executed an OUT to its end.
PutOut == ExecutedOp("OUT") /\ ~Faulted

\* The start address and the count of the OUT the last step() executed.
OutStart == out_start_addr(call.pre, upper(strip(Operand(1)))).val

OutCount == IF HasOperands(2) THEN ValueBefore(2).val ELSE 1

\* The addresses start + i, i = 0..count-1, in increasing i.
OutAddresses == [k \in 1..OutCount |-> OutStart + k - 1]

\* The line of the values at the addresses that are read.
LineOf(read) == join([k \in 1..Len(read) |-> str(mem_get(call.pre.memory, read[k]))])

\* The claim; violated by the OUT of 2 cells from -1, which reads
\* memory[65535] for the address -1.
C21_OutLine ==
    PutOut =>
        /\ emu.output_buffer =
               Append(call.pre.output_buffer,
                      LineOf(SelectSeq(OutAddresses, in_memory)))
        /\ emu.memory = call.pre.memory

\* What the code does: the addresses from len(memory) on are skipped, and
\* an address a below 0 is read as the cell a + len(memory).
C21_OutLineFromBelowZero ==
    PutOut =>
        /\ emu.output_buffer =
               Append(call.pre.output_buffer,
                      LineOf(SelectSeq(OutAddresses, LAMBDA a : a < MemSize)))
        /\ emu.memory = call.pre.memory
        /\ \A k \in 1..OutCount : OutAddresses[k] >= 0 - MemSize

(***************************************************************************)
(* C22. OUT has no failure mode: executing an OUT instruction never sets   *)
(* is_finished or last_error, whatever its operands resolve to (unknown    *)
(* symbol, out-of-range start address, pointer cell out of range,          *)
(* non-positive Count).                                                    *)
(***************************************************************************)

OutResolved ==
    /\ HasOperands(1)
    /\ out_start_addr(call.pre, upper(strip(Operand(1)))).exc = ""
    /\ HasOperands(2) => ValueBefore(2).exc = ""

C23_StopFinishes ==
    ExecutedOp("STOP") =>
        /\ emu.is_finished
        /\ emu.memory = call.pre.memory
        /\ emu.sp = call.pre.sp
        /\ ~HasOperands(1)
              => /\ emu.output_buffer = call.pre.output_buffer
                 /\ emu.last_error = ""
        /\ HasOperands(1) /\ ValueBefore(1).exc = ""
              => /\ emu.output_buffer =
                        Append(call.pre.output_buffer,
                               "STOP Result: " \o str(ValueBefore(1).val))
                 /\ emu.last_error = ""
        /\ HasOperands(1) /\ ValueBefore(1).exc # ""
              => emu.output_buffer = call.pre.output_buffer

\* A STOP has reported a value other than 0 that its operand names in
\* memory, after earlier output.
C23_StopReportedCell ==
    /\ ExecutedOp("STOP")
    /\ HasOperands(1)
    /\ ~is_number(Operand(1))
    /\ ValueBefore(1).exc = ""
    /\ ValueBefore(1).val # 0
    /\ call.pre.output_buffer # <<>>
    /\ Len(emu.output_buffer) = Len(call.pre.output_buffer) + 1
    /\ emu.is_finished

(***************************************************************************)
(* C24. A step() that fetches an instruction whose opcode is not one of    *)
(* MOV, ADD, SUB, MUL, DIV, IN, OUT, BEQ, BGT, JSR, RTS, STOP is a silent  *)
(* no-op that advances pc by 1: memory, sp, output_buffer, the input       *)
(* state, is_finished and last_error are unchanged.                        *)
(***************************************************************************)

\* The last step() executed an instruction whose opcode step() does not
\* know.
ExecutedUnknown ==
    /\ Executed
    /\ fetched(call.pre).opcode \notin
           {"MOV", "ADD", "SUB", "MUL", "DIV", "IN", "OUT",
            "BEQ", "BGT", "JSR", "RTS", "STOP"}

C24_UnknownOpcodeIsNoOp ==
    ExecutedUnknown => emu = [call.pre EXCEPT !.pc = call.pre.pc + 1]

\* FOO 1, 2 has been stepped over, after a NOP.
C24_SteppedOverFoo ==
    /\ ExecutedUnknown
    /\ fetched(call.pre).opcode = "FOO"
    /\ HasOperands(2)
    /\ emu.pc = 2
    /\ ~emu.is_finished
    /\ emu.last_error = ""

(***************************************************************************)
(* C25. parse() is a full reset: after any sequence of parse, step and     *)
(* provide_input calls (a machine left finished, in error, or suspended    *)
(* awaiting input included), parse(text) produces exactly the state that   *)
(* parse(text) produces on a freshly constructed machine: memory all zero, *)
(* sp 65500, input_needed 0, is_finished false, last_error empty,          *)
(* output_buffer empty, tables built only from text.                       *)
(***************************************************************************)

C25_ParseIsFullReset ==
    call.op = "parse" =>
        /\ emu = parse_from(reset, call.arg)
        /\ emu.memory = EmptyDict
        /\ emu.sp = InitSP
        /\ emu.input_needed = 0
        /\ ~emu.is_finished
        /\ emu.last_error = ""
        /\ emu.output_buffer = <<>>

\* A program has been loaded over a machine that had ended in an error
\* with values in its memory and symbols the new program does not define.
C25_LoadedOverFailedMachine ==
    /\ call.op = "parse"
    /\ call.pre.is_finished
    /\ call.pre.last_error # ""
    /\ call.pre.memory # EmptyDict
    /\ DOMAIN call.pre.registers \ DOMAIN emu.registers # {}
    /\ emu = Assembled[call.arg]

(***************************************************************************)
(* C30. address_of resolution order: a numeric literal token resolves to   *)
(* its integer value; otherwise a name present in the symbol table         *)
(* resolves to the symbol's value (taking priority over a label of the     *)
(* same name); otherwise a name present in the label table resolves to the *)
(* label's address; otherwise the instruction fails with an unknown-symbol *)
(* fatal error; names are matched case-insensitively.                      *)
(***************************************************************************)

\* The last step() executed `MOV d, #token` with a number d that addresses
\* a memory cell.
MovedImmediate ==
    /\ ExecutedOp("MOV")
    /\ HasOperands(2)
    /\ isdigit(Operand(1))
    /\ in_memory(digits_value(Operand(1)))
    /\ startswith(Operand(2), "#")

\* The token of its second operand, in upper case.
Token == upper(strip(Tail(Operand(2))))

\* The cell d as the step left it.
Immediate == mem_get(emu.memory, digits_value(Operand(1)))

\* The step failed on the token as an unknown symbol and stored nothing.
UnknownSymbol ==
    /\ emu.is_finished
    /\ endswith(emu.last_error, ": Unknown symbol: " \o Token)
    /\ emu.memory = call.pre.memory
    /\ emu.pc = call.pre.pc

C30_ResolutionOrder ==
    MovedImmediate =>
        IF isdigit(Token) THEN Immediate = digits_value(Token) /\ ~Faulted
        ELSE IF startswith(Token, "-") /\ isdigit(Tail(Token))
        THEN Immediate = 0 - digits_value(Tail(Token)) /\ ~Faulted
        ELSE IF Token \in DOMAIN call.pre.registers
        THEN Immediate = call.pre.registers[Token] /\ ~Faulted
        ELSE IF Token \in DOMAIN call.pre.labels
        THEN Immediate = call.pre.labels[Token] /\ ~Faulted
        ELSE UnknownSymbol

\* A token in lower case that is a symbol and a label has resolved to the
\* symbol's value, which differs from the label's address.
C30_SymbolBeforeLabel ==
    /\ MovedImmediate
    /\ Operand(2) # upper(Operand(2))
    /\ Token \in DOMAIN call.pre.registers
    /\ Token \in DOMAIN call.pre.labels
    /\ call.pre.registers[Token] # call.pre.labels[Token]
    /\ Immediate = call.pre.registers[Token]

(***************************************************************************)
(* The assembler on its own: every source of up to MaxLines lines drawn    *)
(* from AssemblyLines is loaded into a machine as constructed.             *)
(***************************************************************************)

\* The source lines: a comment line, assignments (one that also starts
\* with ORG and holds a ':'), ORG lines and a line that starts with the
\* letters ORG, well-formed and not, labels with and without an
\* instruction, an instruction with '=' in its comment.
AssemblyLines ==
    {"  ; note", "A = 5", "a = x ; 3", "ORG: X = 7",
     "ORG 3", "org 0", "ORG", "ORG x", "ORGAN: NOP",
     "L:", "l: OUT A", "STOP A ; x = 1"}

\* The most lines a source has.
MaxLines == 3

\* "\n".join(lines)
RECURSIVE join_lines(_)
join_lines(lines) ==
    IF Len(lines) = 1 THEN lines[1]
    ELSE lines[1] \o "\n" \o join_lines(Tail(lines))

AssemblySources ==
    UNION {{join_lines(lines) : lines \in [1..n -> AssemblyLines]} : n \in 1..MaxLines}

AssemblyLoad ==
    \E source_code \in AssemblySources :
        /\ call.op = "__init__"
        /\ Leaves("parse", source_code, "None", "", parse(source_code))
        /\ twin' = emu'

AssemblyNext == AssemblyLoad

AssemblySpec == Init /\ [][AssemblyNext]_vars

(***************************************************************************)
(* The lines of the source last loaded, as the pass of parse() takes them. *)
(***************************************************************************)

\* Line i (1-based) of the source, without its comment and stripped.
Line(i) == strip(split(split(call.source, "\n")[i], ";")[1])

LineNumbers == 1..Len(split(call.source, "\n"))

\* Line i is an assignment line: it contains '='.
IsAssignment(i) == contains(Line(i), "=")

\* Line i is an ORG line: no assignment, and it starts with ORG.
IsOrg(i) == ~IsAssignment(i) /\ startswith(upper(Line(i)), "ORG")

\* The argument of the ORG line i, as an evaluation: its second word as an
\* integer.
OrgArgument(i) == org_argument(split_ws(Line(i)))

\* Line i is a well-formed ORG line.
IsOrigin(i) == IsOrg(i) /\ OrgArgument(i).exc = ""

\* Line i is a label line: neither of these, and it contains ':'.
IsLabelled(i) == ~IsAssignment(i) /\ ~IsOrg(i) /\ contains(Line(i), ":")

\* The instruction line i holds, "" when it holds none.
Instruction(i) ==
    IF IsAssignment(i) \/ IsOrg(i) THEN ""
    ELSE IF IsLabelled(i) THEN strip(split_once(Line(i), ":")[2])
    ELSE Line(i)

\* The address counter when the pass reaches line i: 0 at the first line,
\* set by a well-formed ORG and advanced by 1 by an instruction.
RECURSIVE Counter(_)
Counter(i) ==
    IF i = 1 THEN 0
    ELSE IF IsOrigin(i - 1) THEN OrgArgument(i - 1).val
    ELSE IF Instruction(i - 1) # "" THEN Counter(i - 1) + 1
    ELSE Counter(i - 1)

\* The lines that hold an instruction.
InstructionLines == {i \in LineNumbers : Instruction(i) # ""}

(***************************************************************************)
(* C26. Assembly address assignment: parse stores each instruction line at *)
(* the current address counter and then advances the counter by exactly 1; *)
(* the counter starts at 0 and changes otherwise only when a well-formed   *)
(* ORG sets it; blank/comment lines, assignment lines (any line containing *)
(* '=', checked before ORG and label detection), ORG lines and label-only  *)
(* lines consume no address; each entry records the 1-based source line    *)
(* number of its instruction.                                              *)
(***************************************************************************)

\* The last line that stored an instruction at address a.
LastStoredAt(a) ==
    CHOOSE i \in InstructionLines :
        /\ Counter(i) = a
        /\ \A j \in InstructionLines : Counter(j) = a => j <= i

LabelOf(i) == upper(strip(split_once(Line(i), ":")[1]))

\* The last line that defines the label name.
LastDefinition(name) ==
    CHOOSE i \in LineNumbers :
        /\ IsLabelled(i) /\ LabelOf(i) = name
        /\ \A j \in LineNumbers : IsLabelled(j) /\ LabelOf(j) = name => j <= i

\* The instruction lines from line i on.
Following(i) == {j \in InstructionLines : j >= i}

\* The first of them.
NextInstruction(i) == CHOOSE j \in Following(i) : \A k \in Following(i) : j <= k

\* The label table names the labels of the source.
LabelsDefined ==
    DOMAIN emu.labels = {LabelOf(i) : i \in {j \in LineNumbers : IsLabelled(j)}}

\* The claim; violated by a label on its own line with a well-formed ORG
\* between it and the next instruction: the label keeps the address the
\* counter had at its line.
C27_LabelOfNextInstruction ==
    call.op = "parse" =>
        /\ LabelsDefined
        /\ \A name \in DOMAIN emu.labels :
               Following(LastDefinition(name)) # {}
                   => emu.labels[name] = Counter(NextInstruction(LastDefinition(name)))

\* C27 as it holds: every label maps to the value of the address counter
\* at its line, which is the address of INSTR for `NAME: INSTR` and, for a
\* label on its own line, the address of the next instruction stored later
\* in the source when no well-formed ORG line lies between the two.
C27_LabelOfCounter ==
    call.op = "parse" =>
        /\ LabelsDefined
        /\ \A name \in DOMAIN emu.labels :
               LET i == LastDefinition(name)
               IN  /\ emu.labels[name] = Counter(i)
                   /\ (/\ Following(i) # {}
                       /\ \A k \in i..NextInstruction(i) : ~IsOrigin(k))
                          => /\ emu.labels[name] = Counter(NextInstruction(i))
                             /\ emu.labels[name] \in DOMAIN emu.instructions

\* A label on its own line maps to the address of the instruction two
\* lines below it, an assignment between them.
C27_LabelAcrossAssignment ==
    /\ call.op = "parse"
    /\ LineNumbers = 1..3
    /\ IsLabelled(1) /\ Instruction(1) = ""
    /\ IsAssignment(2) /\ emu.registers # EmptyDict
    /\ Instruction(3) # ""
    /\ emu.labels[LabelOf(1)] = Counter(3)
    /\ emu.instructions[emu.labels[LabelOf(1)]].line_no = 3

(***************************************************************************)
(* C28. After parse, pc equals the address given by the last well-formed   *)
(* ORG directive in the source, or 0 when the source has none; instruction *)
(* lines, labels and assignments never change the initial pc.              *)
(***************************************************************************)

\* The well-formed ORG lines.
Origins == {i \in LineNumbers : IsOrigin(i)}

\* The last of them.
LastOrigin == CHOOSE i \in Origins : \A j \in Origins : j <= i

C28_EntryPoint ==
    call.op = "parse" =>
        emu.pc = IF Origins = {} THEN 0 ELSE OrgArgument(LastOrigin).val

\* The source has two well-formed ORG lines of different addresses and an
\* instruction between them; pc is the address of the second.
C28_SecondOrigin ==
    /\ call.op = "parse"
    /\ LineNumbers = 1..3
    /\ IsOrigin(1) /\ IsOrigin(3)
    /\ OrgArgument(1).val # OrgArgument(3).val
    /\ Instruction(2) # ""
    /\ emu.pc = OrgArgument(3).val
    /\ OrgArgument(1).val \in DOMAIN emu.instructions

(***************************************************************************)
(* C29. Malformed directives are silently dropped by parse: an assignment  *)
(* whose right side is not an integer creates no symbol, and an ORG line   *)
(* with a missing or non-integer argument leaves the address counter and   *)
(* the initial pc unchanged; neither is stored as an instruction, and      *)
(* parse never raises nor sets is_finished or last_error.                  *)
(***************************************************************************)

\* The right side of the assignment line i, as an evaluation: the text
\* after its first '=' (up to a second one) as an integer.
RightSide(i) == int(strip(split(Line(i), "=")[2]))

\* Line i is a malformed directive.
IsMalformed(i) ==
    \/ IsAssignment(i) /\ RightSide(i).exc # ""
    \/ IsOrg(i) /\ OrgArgument(i).exc # ""

\* The source with its malformed directives replaced by blank lines.
WithoutMalformed ==
    join_lines([i \in LineNumbers |->
        IF IsMalformed(i) THEN "" ELSE split(call.source, "\n")[i]])

\* The names the well-formed assignments of the source define.
Assigned ==
    {upper(strip(split(Line(i), "=")[1])) :
        i \in {j \in LineNumbers : IsAssignment(j) /\ ~IsMalformed(j)}}

C29_MalformedDirectivesDropped ==
    call.op = "parse" =>
        /\ emu = parse(WithoutMalformed)
        /\ DOMAIN emu.registers = Assigned
        /\ \A a \in DOMAIN emu.instructions :
               ~IsMalformed(emu.instructions[a].line_no)
        /\ call.exc = ""
        /\ ~emu.is_finished
        /\ emu.last_error = ""

\* A malformed assignment and an ORG without argument precede an
\* instruction, which is stored at address 0 with no symbol defined.
C29_DroppedBeforeInstruction ==
    /\ call.op = "parse"
    /\ LineNumbers = 1..3
    /\ IsAssignment(1) /\ IsMalformed(1)
    /\ IsOrg(2) /\ IsMalformed(2) /\ Len(split_ws(Line(2))) = 1
    /\ Instruction(3) # ""
    /\ emu.registers = EmptyDict
    /\ emu.pc = 0
    /\ DOMAIN emu.instructions = {0}
    /\ emu.instructions[0].line_no = 3


(***************************************************************************)
(* C31.  touched_memory and the cells written.                             *)
(***************************************************************************)

\* The cells of the memory list that hold a value other than 0.
CellsHoldingValue == DOMAIN emu.memory

\* C31: in every state reached through parse, step and provide_input,
\* every memory cell holding a non-zero value has its index in
\* touched_memory.
C31_TouchedCoversWritten == CellsHoldingValue \subseteq emu.touched_memory

\* What the code keeps: every cell holding a value is the cell that some
\* index in touched_memory names, counting negative indices from the end
\* of the list as Python does.
C31_TouchedNamesWritten ==
    \A c \in CellsHoldingValue :
        \E i \in emu.touched_memory : valid_index(i) /\ cell_of(i) = c


(***************************************************************************)
(* C33.  A suspended machine is not finished.                              *)
(***************************************************************************)

\* C33: in every state reached through parse, step and provide_input,
\* is_finished and input_needed > 0 never hold together and input_needed
\* is never negative.
C33_SuspendedOrFinished ==
    /\ ~(emu.is_finished /\ emu.input_needed > 0)
    /\ emu.input_needed >= 0

\* A machine that was suspended by an IN and given all the values it
\* awaited has gone on to finish.
C33_FinishedAfterInput ==
    /\ emu.is_finished
    /\ emu.input_needed = 0
    /\ call.asked.n > 0
    /\ call.asked.k = call.asked.n


(***************************************************************************)
(* C34.  What a step() that ends in a fatal error leaves behind.           *)
(***************************************************************************)

\* The last call was a step() that ran on a machine neither finished nor
\* suspended and ended in a fatal error.
FailedStep ==
    /\ call.op = "step"
    /\ ~call.pre.is_finished
    /\ call.pre.input_needed = 0
    /\ emu.last_error # ""

\* The fields a failing step() leaves alone whatever the opcode.
KeptByFailedStep ==
    /\ emu.is_finished
    /\ emu.pc = call.pre.pc
    /\ emu.output_buffer = call.pre.output_buffer
    /\ emu.input_needed = call.pre.input_needed
    /\ emu.input_dest_addr = call.pre.input_dest_addr

\* The stack as it was before the last step().
StackKept ==
    /\ emu.sp = call.pre.sp
    /\ emu.memory = call.pre.memory
    /\ emu.touched_memory = call.pre.touched_memory

\* The last step() executed a JSR that had an operand and a stack pointer
\* inside the memory list: its push was made before the label was sought.
PushedBeforeFailing ==
    /\ ExecutedOp("JSR")
    /\ HasOperands(1)
    /\ valid_index(call.pre.sp)

\* C34 as claimed: a step() that ends in a fatal error changes only
\* is_finished and last_error; pc, sp, memory, touched_memory,
\* output_buffer, input_needed and input_dest_addr are as before the step,
\* for every opcode.
C34_FatalStepChangesFlagsOnly ==
    FailedStep => KeptByFailedStep /\ StackKept

\* C34 as it holds: a step() that ends in a fatal error leaves pc,
\* output_buffer, input_needed and input_dest_addr as they were; sp, memory
\* and touched_memory are as they were too, except that a failing JSR has
\* already stored the return address pc + 1 at memory[sp], recorded sp in
\* touched_memory and decremented sp, and a failing RTS has already
\* incremented sp.
C34_FatalStepKeepsAllButStack ==
    FailedStep =>
        /\ KeptByFailedStep
        /\ IF FetchedNothing THEN StackKept
           ELSE IF PushedBeforeFailing
           THEN /\ emu.sp = call.pre.sp - 1
                /\ mem_get(emu.memory, call.pre.sp) = call.pre.pc + 1
                /\ \A c \in (DOMAIN emu.memory \cup DOMAIN call.pre.memory)
                           \ {cell_of(call.pre.sp)} :
                       mem_get(emu.memory, c) = mem_get(call.pre.memory, c)
                /\ emu.touched_memory = call.pre.touched_memory \cup {call.pre.sp}
           ELSE IF ExecutedOp("RTS")
           THEN /\ emu.sp = call.pre.sp + 1
                /\ emu.memory = call.pre.memory
                /\ emu.touched_memory = call.pre.touched_memory
           ELSE StackKept

\* A JSR to a label that does not exist has failed with its return address
\* on the stack.
C34_FailedJsrPushed ==
    /\ FailedStep
    /\ PushedBeforeFailing
    /\ emu.sp = InitSP - 1
    /\ mem_get(emu.memory, InitSP) = call.pre.pc + 1
    /\ InitSP \in emu.touched_memory
    /\ InitSP \notin call.pre.touched_memory


(***************************************************************************)
(* C35.  A branch that is not taken does not look its label up.            *)
(***************************************************************************)

\* The last step() executed the branch instruction opcode, its condition
\* did not hold, and its third operand names no label.
UntakenToNowhere(opcode) ==
    /\ Branched(opcode)
    /\ IF opcode = "BEQ" THEN ValueBefore(1).val # ValueBefore(2).val
       ELSE ValueBefore(1).val <= ValueBefore(2).val
    /\ upper(Operand(3)) \notin DOMAIN call.pre.labels

\* C35: a BEQ or BGT whose condition is false falls through to pc + 1
\* without any error even when its label operand is not defined; nothing
\* else changes.
C35_UntakenBranchNeedsNoLabel ==
    (UntakenToNowhere("BEQ") \/ UntakenToNowhere("BGT")) =>
        /\ emu.pc = call.pre.pc + 1
        /\ ~emu.is_finished
        /\ emu.last_error = ""
        /\ emu = [call.pre EXCEPT !.pc = call.pre.pc + 1]

\* A BEQ on unequal values has passed over a label that does not exist.
C35_BeqPassedOverNowhere ==
    /\ UntakenToNowhere("BEQ")
    /\ emu.pc = call.pre.pc + 1
    /\ emu.pc \in DOMAIN emu.instructions


(***************************************************************************)
(* C36.  RTS with no outstanding JSR.                                      *)
(***************************************************************************)

\* The last step() executed an RTS with the stack pointer at its initial
\* value: no JSR is outstanding.
ReturnedFromEmptyStack ==
    /\ ExecutedOp("RTS")
    /\ call.pre.sp = InitSP

\* C36 as claimed: an RTS executed with sp at its initial value 65500 ends
\* the machine with a fatal stack-underflow error instead of transferring
\* control to the address memory[65501] holds; in every reachable state
\* without error sp <= 65500.
C36_EmptyStackRtsIsFatal ==
    /\ ReturnedFromEmptyStack =>
           /\ emu.is_finished
           /\ emu.last_error # ""
           /\ emu.pc = call.pre.pc
    /\ emu.last_error = "" => emu.sp <= InitSP

\* C36 as it holds: an RTS executed with sp at its initial value 65500
\* does not fail; it increments sp to 65501 and transfers control to the
\* address memory[65501] holds.  An RTS ends in the stack-underflow error
\* exactly when sp + 1 reaches 65536, so in every reachable state without
\* error sp <= 65535.
C36_EmptyStackRtsJumps ==
    /\ ReturnedFromEmptyStack =>
           /\ ~emu.is_finished
           /\ emu.last_error = ""
           /\ emu.sp = InitSP + 1
           /\ emu.pc = mem_get(call.pre.memory, InitSP + 1)
    /\ ExecutedOp("RTS") => (Faulted <=> call.pre.sp + 1 >= MemSize)
    /\ emu.last_error = "" => emu.sp <= MemSize - 1

\* An RTS with no outstanding JSR has jumped to the address a MOV had
\* stored above the stack.
C36_ReturnedToStoredAddress ==
    /\ ReturnedFromEmptyStack
    /\ InitSP + 1 \in call.pre.touched_memory
    /\ emu.pc = mem_get(call.pre.memory, InitSP + 1)
    /\ emu.pc # 0
    /\ emu.sp = InitSP + 1
    /\ ~emu.is_finished


(***************************************************************************)
(* C37.  The window's source map and the assembler's instruction table.    *)
(* The programs are those of AssemblySources, opened in a window just      *)
(* constructed.                                                            *)
(***************************************************************************)

\* What a handler that found the window `self` and left it `after` leaves
\* of the emulator and the window.
Shows(after) ==
    /\ emu' = after.emu
    /\ win' = Attributes(after)

\* MainWindow.open_file() with the text read from the file: setPlainText
\* signals on_code_changed, then load_program() is called.
open_file(self, text) == load_program(on_code_changed(self, text))

OpenFile ==
    \E text \in AssemblySources :
        /\ call.op = "__init__"
        /\ Shows(open_file(Owning(win, emu), text))
        /\ call' = Called("parse", text, "None", "", emu')
        /\ twin' = emu'

SourceMapNext == OpenFile

SourceMapSpec == Init /\ [][SourceMapNext]_vars

\* C37: for every source text, build_sourcemap maps exactly the addresses
\* that parse() put in the instruction table, and for each such address
\* pc_to_line_map[addr] = instructions[addr].line_no - 1.
C37_SourceMapAgrees ==
    call.op = "parse" =>
        /\ DOMAIN win.pc_to_line_map = DOMAIN emu.instructions
        /\ \A addr \in DOMAIN emu.instructions :
               win.pc_to_line_map[addr] = emu.instructions[addr].line_no - 1

\* What the two passes agree on: the sources in which every line parse()
\* takes for an ORG directive is one analyze_line does not count as an
\* instruction.
C37_AgreesButForOrgLines ==
    (call.op = "parse" /\ \A i \in LineNumbers :
                              IsOrg(i) => analyze_line(Line(i)).kind # "INS")
        => /\ DOMAIN win.pc_to_line_map = DOMAIN emu.instructions
           /\ \A addr \in DOMAIN emu.instructions :
                  win.pc_to_line_map[addr] = emu.instructions[addr].line_no - 1


(***************************************************************************)
(* The window driving the emulator: one action per handler the user or     *)
(* the run timer can fire.  The editor is locked while a session runs      *)
(* (lock_editor, on by default), and the window starts as load_settings    *)
(* leaves it, with the text of the last session in the editor.             *)
(***************************************************************************)

\* The programs in the editor: one that asks for input twice, one that
\* stops, one that runs off its end.
GuiSources ==
    {"IN 1\nIN 2\nSTOP 1",
     "MOV 1, 7\nOUT 1\nSTOP",
     "MOV 2, 5"}

\* The texts typed into the input field.
GuiInputTexts == {"4", "abc", ""}

\* The editor lines (0-based) the user marks and unmarks.
BreakLines == {1}

\* The elements of a sequence.
Range(s) == {s[i] : i \in DOMAIN s}

\* Whether the machine has finished since it was last parsed, after a
\* handler that made the calls `made` and left `after`.
ended_after(after) ==
    IF "parse" \in Range(after.made) THEN after.emu.is_finished
    ELSE call.ended \/ after.emu.is_finished

\* Whether the suspension the handler op leaves counts as one of the auto-run:
\* the IN was executed by the timer's step, or Run was pressed since.
auto_after(op, before, after) ==
    IF after.emu.input_needed = 0 THEN FALSE
    ELSE IF before.emu.input_needed = 0 \/ "parse" \in Range(after.made)
    THEN op = "step_execution"
    ELSE call.auto \/ op = "toggle_run"

\* What the handler op, fired on the window `before`, leaves of the
\* emulator, the window and the record of the last call.
Handled(op, a, before, after) ==
    /\ Shows(after)
    /\ call' = [op |-> op, arg |-> a, pre |-> before, made |-> after.made,
                ended |-> ended_after(after), ended_before |-> call.ended,
                auto |-> auto_after(op, before, after),
                auto_before |-> call.auto]
    /\ twin' = twin

GuiInit ==
    \E text \in GuiSources :
        /\ emu = reset
        /\ twin = reset
        /\ win = [MainWindow EXCEPT !.code = text]
        /\ call = [op |-> "__init__", arg |-> "", pre |-> Owning(win, emu),
                   made |-> <<>>, ended |-> FALSE, ended_before |-> FALSE,
                   auto |-> FALSE, auto_before |-> FALSE]

\* act_run.triggered
ToggleRun ==
    Handled("toggle_run", "", Owning(win, emu), toggle_run(Owning(win, emu)))

\* act_step.triggered
ManualStep ==
    Handled("manual_step", "", Owning(win, emu), manual_step(Owning(win, emu)))

\* timer.timeout
Tick ==
    /\ win.timer
    /\ Handled("step_execution", "", Owning(win, emu),
               step_execution(Owning(win, emu)))

\* act_reset.triggered
ResetProgram ==
    Handled("reset_program", "", Owning(win, emu), reset_program(Owning(win, emu)))

\* input_field.returnPressed, the field holding text.
HandleInput ==
    \E text \in GuiInputTexts :
        /\ win.input_enabled
        /\ Handled("handle_input", text, Owning(win, emu),
                   handle_input(Owning(win, emu), text))

\* editor.textChanged
CodeChanged ==
    \E text \in GuiSources :
        /\ ~win.is_running_session
        /\ text # win.code
        /\ Handled("on_code_changed", text, Owning(win, emu),
                   on_code_changed(Owning(win, emu), text))

\* A click in the line number area.
ToggleBreakpoint ==
    \E line_num \in BreakLines :
        Handled("toggle_breakpoint", str(line_num), Owning(win, emu),
                toggle_breakpoint(Owning(win, emu), line_num))

GuiNext ==
    \/ ToggleRun
    \/ ManualStep
    \/ Tick
    \/ ResetProgram
    \/ HandleInput
    \/ CodeChanged
    \/ ToggleBreakpoint

GuiSpec == GuiInit /\ [][GuiNext]_vars


(***************************************************************************)
(* C32.  The finished machine under the window.                            *)
(***************************************************************************)

\* The last handler called emu.step().
HandlerStepped == "step" \in Range(call.made)

\* The last handler called emu.parse() before anything else.
HandlerParsedFirst == call.made # <<>> /\ call.made[1] = "parse"

\* C32: once the engine has finished, no user action makes it execute
\* further instructions on that machine state; a handler calls emu.step()
\* on a machine that has finished only after a fresh parse().
C32_FinishedIsAbsorbingInWindow ==
    (call.ended_before /\ HandlerStepped) => HandlerParsedFirst

\* What the window keeps: Step and the timer leave a finished machine
\* finished and call neither step() nor parse() on it.
C32_StepLeavesFinished ==
    (call.pre.emu.is_finished
        /\ call.op \in {"manual_step", "step_execution"}
        /\ ~HandlerParsedFirst)
        => /\ ~HandlerStepped
           /\ emu = [call.pre.emu EXCEPT !.output_buffer = <<>>]

(***************************************************************************)
(* C38.  Auto-run after the last input of an IN.                           *)
(***************************************************************************)

\* The last handler supplied the last value an IN was waiting for.
LastInputSupplied ==
    /\ call.op = "handle_input"
    /\ call.pre.emu.input_needed = 1
    /\ emu.input_needed = 0

\* C38: when the last pending input of an IN is supplied, the run timer
\* is started if and only if the timer was active when that IN suspended
\* the machine or Run was pressed while it was suspended.
C38_ResumesAfterAutoRunOnly ==
    LastInputSupplied => (win.timer <=> call.auto_before)

\* What the window keeps: a suspension of the auto-run, or one during
\* which Run was pressed, is resumed; and the timer is started exactly
\* when was_running_before_input was set, whichever suspension set it.
C38_ResumesOnFlag ==
    LastInputSupplied =>
        /\ call.auto_before => win.timer
        /\ win.timer <=> call.pre.was_running_before_input
====
